---- MODULE Spec2Model ----
(***************************************************************************)
(* dedust: a rule language for filesystem cleanup.                         *)
(*                                                                         *)
(* The model covers the validator, the evaluator (directory walk, ignore   *)
(* and skip matching, condition resolution, target matching, execution)    *)
(* and the entry points of index.js.                                       *)
(*                                                                         *)
(* Paths are sequences of path segments, absolute from the filesystem      *)
(* root <<>>.  Patterns are sequences of pattern segments (the pattern     *)
(* string split at "/").  No name of the model is a string prefix of       *)
(* another, so String.startsWith on two paths is prefix on segments.       *)
(***************************************************************************)
EXTENDS Integers, Sequences, FiniteSets, TLC

(***************************************************************************)
(* Bounds of the model.                                                    *)
(***************************************************************************)
\* most entries below the base directory
MaxNodes == 3
\* most rules in a rule text
MaxRules == 2
\* most targets handed to Evaluator.execute
MaxTargets == 3

(***************************************************************************)
(* Names and paths.                                                        *)
(***************************************************************************)
\* entry names below the base directory; "b.x" contains a dot
Names == {"a", "b.x"}
DottedNames == {"b.x", "Cargo.toml", "keep.txt"}
\* the process working directory and the base directory beneath it
Cwd == << >>
BaseName == "w"
\* an entry beside the base directory
OutsideName == "o"

\* F applied to the value of v: v is evaluated once, whatever F does with it
With(v, F(_)) == CHOOSE r \in {F(x) : x \in {v}} : TRUE

Last(s) == s[Len(s)]
Front(s) == SubSeq(s, 1, Len(s) - 1)

\* p is a prefix of q (q is p or lies beneath p)
IsPrefix(p, q) == Len(p) <= Len(q) /\ SubSeq(q, 1, Len(p)) = p
\* q lies strictly beneath p
IsBeneath(q, p) == Len(p) < Len(q) /\ IsPrefix(p, q)

\* path.normalize on a list of segments: ".." drops the segment before it
\* (at the root it is dropped), "." is dropped
RECURSIVE NormalizeFrom(_, _)
NormalizeFrom(acc, rest) ==
    IF rest = << >> THEN acc
    ELSE IF Head(rest) = ".." THEN
            NormalizeFrom(IF acc = << >> THEN acc ELSE Front(acc), Tail(rest))
    ELSE IF Head(rest) = "." \/ Head(rest) = "" THEN NormalizeFrom(acc, Tail(rest))
    ELSE NormalizeFrom(Append(acc, Head(rest)), Tail(rest))

\* path.join(dir, pattern) for an absolute dir
PathJoin(dir, segs) == NormalizeFrom(<< >>, dir \o segs)

\* path.dirname of an absolute path; the root is its own parent
Dirname(p) == IF p = << >> THEN p ELSE Front(p)

\* length of the longest common prefix
RECURSIVE CommonLen(_, _)
CommonLen(p, q) ==
    IF p = << >> \/ q = << >> \/ Head(p) # Head(q) THEN 0
    ELSE 1 + CommonLen(Tail(p), Tail(q))

\* path.relative(from, to): ".." for every segment of from outside the
\* common prefix, then the rest of to; << >> stands for the empty string
PathRelative(from, to) ==
    LET c == CommonLen(from, to)
    IN  [i \in 1..(Len(from) - c) |-> ".."] \o SubSeq(to, c + 1, Len(to))

\* String.split(path.sep): the empty string splits into one empty part
SplitPath(rel) == IF rel = << >> THEN <<"">> ELSE rel

\* a base directory as the caller writes it: absolute, or relative to Cwd
\* path.resolve(baseDir)
PathResolve(b) == IF b.abs THEN b.segs ELSE Cwd \o b.segs

\* target.startsWith(dir) for an absolute target and a directory string as
\* the caller wrote it: an absolute path never starts with a relative one
StartsWithDir(target, b) == b.abs /\ IsPrefix(b.segs, target)

(***************************************************************************)
(* The filesystem: a function from the existing paths to their kind.       *)
(***************************************************************************)
Exists(fs, p) == p \in DOMAIN fs
IsDirectory(fs, p) == p \in DOMAIN fs /\ fs[p] = "dir"

\* the entries of a directory
ChildrenOf(fs, dir) == {p \in DOMAIN fs : Len(p) = Len(dir) + 1 /\ IsPrefix(dir, p)}

\* names are listed in a fixed order
NameRank(n) ==
    CASE n = "a" -> 1 [] n = "b.x" -> 2 [] n = "o" -> 3 [] n = "w" -> 4
      [] n = "Cargo.toml" -> 5 [] n = "crate1" -> 6 [] n = "crate2" -> 7
      [] n = "target" -> 8 [] n = "keep.txt" -> 9 [] OTHER -> 10

RECURSIVE SortByName(_)
SortByName(S) ==
    IF S = {} THEN << >>
    ELSE LET m == CHOOSE p \in S : \A q \in S : NameRank(Last(p)) <= NameRank(Last(q))
         IN  <<m>> \o SortByName(S \ {m})

ReadDir(fs, dir) == SortByName(ChildrenOf(fs, dir))

\* mutant: the removal takes the directory that holds the path
RemoveTree_parent(fs, p) == [q \in {r \in DOMAIN fs : ~IsPrefix(Dirname(p), r)} |-> fs[q]]

\* fs.unlink(file) / fs.rm(dir, {recursive, force}): the path and all beneath
RemoveTree(fs, p) == [q \in {r \in DOMAIN fs : ~IsPrefix(p, r)} |-> fs[q]]

(***************************************************************************)
(* minimatch, with the options {dot: true, matchBase: true} the evaluator  *)
(* compiles its ignore and skip patterns with.                             *)
(***************************************************************************)
\* pattern segments that contain a glob character: /[*?[\]{}]/
GlobSegs == {"*", "**", "*.*"}

\* one pattern segment against one path part
SegMatch(seg, part) ==
    CASE seg = "*"   -> part \notin {"", ".", ".."}
      [] seg = "*.*" -> part \in DottedNames
      [] OTHER       -> seg = part

RECURSIVE MatchOne(_, _)
RECURSIVE GlobStarRest(_, _)
\* Minimatch.matchOne(file, pattern, partial = false)
MatchOne(file, pattern) ==
    IF pattern = << >> THEN file = << >> \/ file = <<"">>
    ELSE IF file = << >> THEN FALSE
    ELSE IF Head(pattern) = "**" THEN
            IF Len(pattern) = 1
            THEN \A i \in 1..Len(file) : file[i] \notin {".", ".."}
            ELSE GlobStarRest(file, Tail(pattern))
    ELSE SegMatch(Head(pattern), Head(file)) /\ MatchOne(Tail(file), Tail(pattern))

\* a "**" that is not last swallows zero or more parts, none "." or ".."
GlobStarRest(file, rest) ==
    IF file = << >> THEN FALSE
    ELSE \/ MatchOne(file, rest)
         \/ Head(file) \notin {".", ".."} /\ GlobStarRest(Tail(file), rest)

\* the last part of the path that is not empty
RECURSIVE Filename(_)
Filename(parts) ==
    IF parts = << >> THEN ""
    ELSE IF Last(parts) # "" THEN Last(parts)
    ELSE Filename(Front(parts))

\* Minimatch.match(f): a pattern of one segment is matched against the
\* basename (matchBase)
MinimatchMatch(pattern, rel) ==
    LET ff == SplitPath(rel)
        file == IF Len(pattern) = 1 THEN <<Filename(ff)>> ELSE ff
    IN  MatchOne(file, pattern)

\* pattern.endsWith("/**") and the pattern without that suffix
HasRecursiveSuffix(pattern) == Len(pattern) >= 2 /\ Last(pattern) = "**"
DirPattern(pattern) == Front(pattern)

\* one entry of ignoreMatchers / skipMatchers
Matcher(pattern) ==
    [pattern |-> pattern,
     dirMatcher |-> IF HasRecursiveSuffix(pattern) THEN <<DirPattern(pattern)>> ELSE << >>]

\* pattern is simple: it holds no glob character
isSimplePattern(pattern) == \A i \in 1..Len(pattern) : pattern[i] \notin GlobSegs

(***************************************************************************)
(* The Evaluator.  ev is the constructed instance: rules, baseDir          *)
(* (resolved), ignorePatterns and skipPatterns (rule targets, then the     *)
(* caller's patterns).  The result caches are memoizations of functions of *)
(* the path alone and are not modelled.                                    *)
(***************************************************************************)
RuleTargets(rules, action) ==
    LET Is(r) == r.action = action
        sel == SelectSeq(rules, Is)
    IN  [i \in 1..Len(sel) |-> sel[i].target]

NewEvaluator(rules, baseDir, ignorePatterns, skipPatterns) ==
    [rules |-> rules,
     baseDir |-> PathResolve(baseDir),
     ignorePatterns |-> RuleTargets(rules, "ignore") \o ignorePatterns,
     skipPatterns |-> RuleTargets(rules, "skip") \o skipPatterns]

\* mutant: the leading parts of the path are not checked
checkParentDirectories_none(patterns, pathParts) == FALSE

\* the matcher of some pattern matches some leading part of the path
checkParentDirectories(patterns, pathParts) ==
    \E k \in 1..Len(patterns) : \E i \in 1..Len(pathParts) :
        MinimatchMatch(patterns[k], IF SubSeq(pathParts, 1, i) = <<"">> THEN << >>
                                     ELSE SubSeq(pathParts, 1, i))

\* the path, or a leading part of it, matches a pattern of the list
MatchesList(patterns, relativePath) ==
    \/ \E k \in 1..Len(patterns) :
          \/ /\ Matcher(patterns[k]).dirMatcher # << >>
             /\ MinimatchMatch(Matcher(patterns[k]).dirMatcher[1], relativePath)
          \/ MinimatchMatch(patterns[k], relativePath)
    \/ checkParentDirectories(patterns, SplitPath(relativePath))

shouldIgnore(ev, filePath) ==
    MatchesList(ev.ignorePatterns, PathRelative(ev.baseDir, filePath))

shouldSkipTraversal(ev, dirPath) ==
    MatchesList(ev.skipPatterns, PathRelative(ev.baseDir, dirPath))

\* mutant: the loop stops one part early and misses the parent directory
isInsideSkippedDirectory_short(ev, filePath) ==
    LET parts == SplitPath(PathRelative(ev.baseDir, filePath))
    IN  \E i \in 1..(Len(parts) - 2) :
            shouldSkipTraversal(ev, PathJoin(ev.baseDir, SubSeq(parts, 1, i)))

\* mutant: the path itself is checked as well
isInsideSkippedDirectory_self(ev, filePath) ==
    LET parts == SplitPath(PathRelative(ev.baseDir, filePath))
    IN  \E i \in 1..Len(parts) :
            shouldSkipTraversal(ev, PathJoin(ev.baseDir, SubSeq(parts, 1, i)))

\* some directory above the path (not the path itself) is skipped; the
\* directories are built from the parts of the relative path
isInsideSkippedDirectory(ev, filePath) ==
    LET parts == SplitPath(PathRelative(ev.baseDir, filePath))
    IN  \E i \in 1..(Len(parts) - 1) :
            shouldSkipTraversal(ev, PathJoin(ev.baseDir, SubSeq(parts, 1, i)))

(***************************************************************************)
(* glob(pattern, {cwd, nodir: false, dot: true}): the entries at or below  *)
(* cwd whose path relative to cwd matches; "**" alone also yields cwd.     *)
(* Results come in walk order.                                             *)
(***************************************************************************)
RECURSIVE Walk(_, _)
RECURSIVE WalkAll(_, _)
Walk(fs, p) ==
    LET Below(entries) == WalkAll(fs, entries)
    IN  <<p>> \o (IF IsDirectory(fs, p) THEN With(ReadDir(fs, p), Below) ELSE << >>)
WalkAll(fs, entries) ==
    LET Rest(first) == first \o WalkAll(fs, Tail(entries))
    IN  IF entries = << >> THEN << >> ELSE With(Walk(fs, Head(entries)), Rest)

GlobMatch(pattern, rel) ==
    IF rel = << >> THEN pattern = <<"**">> ELSE MatchOne(rel, pattern)

Glob(fs, pattern, cwd) ==
    LET Hit(p) == GlobMatch(pattern, PathRelative(cwd, p))
    IN  IF Exists(fs, cwd) THEN SelectSeq(Walk(fs, cwd), Hit) ELSE << >>

\* Evaluator.exists(dir, pattern)
exists(fs, dir, pattern) ==
    IF isSimplePattern(pattern)
    THEN Exists(fs, PathJoin(dir, pattern))
    ELSE Glob(fs, pattern, dir) # << >>

(***************************************************************************)
(* Rules and conditions, as the parser builds them.  A field that may be   *)
(* null is a sequence of length 0 or 1.                                    *)
(***************************************************************************)
ExistsPredicate(location, pattern) ==
    [type |-> "exists", location |-> location, pattern |-> pattern, negated |-> << >>]
NotPredicate(negated) ==
    [type |-> "not", location |-> "here", pattern |-> << >>, negated |-> <<negated>>]
PredicateCondition(predicate) ==
    [type |-> "predicate", left |-> << >>, right |-> << >>, predicate |-> <<predicate>>]
AndCondition(left, right) ==
    [type |-> "and", left |-> <<left>>, right |-> <<right>>, predicate |-> << >>]
Rule(action, target, condition) ==
    [action |-> action, target |-> target, condition |-> condition]

\* mutant: only ignore patterns prevent the traversal of a directory
RECURSIVE collectChildren_ignoreOnly(_, _, _)
collectChildren_ignoreOnly(ev, fs, dir) ==
    LET Step(fullPath) ==
            IF IsDirectory(fs, fullPath) /\ ~shouldIgnore(ev, fullPath)
            THEN <<fullPath>> \o collectChildren_ignoreOnly(ev, fs, fullPath)
            ELSE << >>
        Each(entries) ==
            LET acc[i \in 0..Len(entries)] ==
                    IF i = 0 THEN << >> ELSE acc[i - 1] \o With(entries[i], Step)
            IN  acc[Len(entries)]
    IN  With(ReadDir(fs, dir), Each)

\* Evaluator.getLocationDirs(currentDir, location)
RECURSIVE collectChildren(_, _, _)
collectChildren(ev, fs, dir) ==
    LET Step(fullPath) ==
            IF IsDirectory(fs, fullPath)
               /\ ~shouldIgnore(ev, fullPath) /\ ~shouldSkipTraversal(ev, fullPath)
            THEN <<fullPath>> \o collectChildren(ev, fs, fullPath)
            ELSE << >>
        Each(entries) ==
            LET acc[i \in 0..Len(entries)] ==
                    IF i = 0 THEN << >> ELSE acc[i - 1] \o With(entries[i], Step)
            IN  acc[Len(entries)]
    IN  With(ReadDir(fs, dir), Each)

\* mutant: the walk upwards goes on to the root
RECURSIVE parentsOf_toRoot(_, _)
parentsOf_toRoot(ev, currentDir) ==
    LET dir == Dirname(currentDir)
    IN  IF dir # currentDir
        THEN <<dir>> \o parentsOf_toRoot(ev, dir)
        ELSE << >>

\* case "parents": the directories above currentDir, up to the base directory
RECURSIVE parentsOf(_, _)
parentsOf(ev, currentDir) ==
    LET dir == Dirname(currentDir)
    IN  IF dir # currentDir /\ IsPrefix(ev.baseDir, dir)
        THEN <<dir>> \o parentsOf(ev, dir)
        ELSE << >>

\* mutant: child takes every subdirectory, ignored or not
getLocationDirs_unfiltered(ev, fs, currentDir, location) ==
    LET parentDir == Dirname(currentDir)
        IsDir(p) == IsDirectory(fs, p)
        NotCurrent(p) == IsDirectory(fs, p) /\ p # currentDir
    IN  CASE location = "here" -> <<currentDir>>
          [] location = "parent" ->
                IF parentDir = currentDir \/ ~IsPrefix(ev.baseDir, parentDir)
                THEN << >> ELSE <<parentDir>>
          [] location = "parents" -> parentsOf(ev, currentDir)
          [] location = "child" -> SelectSeq(ReadDir(fs, currentDir), IsDir)
          [] location = "children" -> collectChildren(ev, fs, currentDir)
          [] location = "sibling" ->
                IF parentDir = currentDir \/ ~IsPrefix(ev.baseDir, parentDir)
                THEN << >> ELSE SelectSeq(ReadDir(fs, parentDir), NotCurrent)
          [] OTHER -> <<currentDir>>

getLocationDirs(ev, fs, currentDir, location) ==
    LET parentDir == Dirname(currentDir)
        IsDir(p) == IsDirectory(fs, p)
        NotIgnoredDir(p) == IsDirectory(fs, p) /\ ~shouldIgnore(ev, p)
        NotCurrent(p) == IsDirectory(fs, p) /\ p # currentDir
    IN  CASE location = "here" -> <<currentDir>>
          [] location = "parent" ->
                IF parentDir = currentDir \/ ~IsPrefix(ev.baseDir, parentDir)
                THEN << >> ELSE <<parentDir>>
          [] location = "parents" -> parentsOf(ev, currentDir)
          [] location = "child" -> SelectSeq(ReadDir(fs, currentDir), NotIgnoredDir)
          [] location = "children" -> collectChildren(ev, fs, currentDir)
          [] location = "sibling" ->
                IF parentDir = currentDir \/ ~IsPrefix(ev.baseDir, parentDir)
                THEN << >> ELSE SelectSeq(ReadDir(fs, parentDir), NotCurrent)
          [] OTHER -> <<currentDir>>

\* Evaluator.evaluatePredicate(predicate, currentDir)
RECURSIVE evaluatePredicate(_, _, _, _)
evaluatePredicate(ev, fs, predicate, currentDir) ==
    IF predicate.type = "not" THEN
        IF predicate.negated = << >> THEN FALSE
        ELSE ~evaluatePredicate(ev, fs, predicate.negated[1], currentDir)
    ELSE IF predicate.type = "exists" THEN
        LET dirs == getLocationDirs(ev, fs, currentDir, predicate.location)
        IN  \E i \in 1..Len(dirs) : exists(fs, dirs[i], predicate.pattern)
    ELSE FALSE

\* Evaluator.evaluateCondition(condition, currentDir)
\* mutant: the right side of an and is always taken for a predicate
evaluateCondition_leaf(ev, fs, condition, currentDir) ==
    IF condition.type = "predicate" THEN
        IF condition.predicate = << >> THEN TRUE
        ELSE evaluatePredicate(ev, fs, condition.predicate[1], currentDir)
    ELSE IF condition.type = "and" THEN
        IF condition.left = << >> \/ condition.right = << >> THEN FALSE
        ELSE IF ~evaluatePredicate(ev, fs, condition.left[1], currentDir) THEN FALSE
        ELSE evaluatePredicate(ev, fs, condition.right[1], currentDir)
    ELSE FALSE

RECURSIVE evaluateCondition(_, _, _, _)
evaluateCondition(ev, fs, condition, currentDir) ==
    IF condition.type = "predicate" THEN
        IF condition.predicate = << >> THEN TRUE
        ELSE evaluatePredicate(ev, fs, condition.predicate[1], currentDir)
    ELSE IF condition.type = "and" THEN
        IF condition.left = << >> \/ condition.right = << >> THEN FALSE
        ELSE IF ~evaluatePredicate(ev, fs, condition.left[1], currentDir) THEN FALSE
        ELSE IF condition.right[1].type \in {"and", "predicate"}
             THEN evaluateCondition(ev, fs, condition.right[1], currentDir)
             ELSE evaluatePredicate(ev, fs, condition.right[1], currentDir)
    ELSE FALSE

\* Evaluator.getAllDirectories(dir): dir, then every directory beneath it
\* that is reached without entering an ignored or skipped directory
getAllDirectories(ev, fs, dir) == <<dir>> \o collectChildren(ev, fs, dir)

\* Evaluator.findTargets(rule, dir): the paths the rule selects at dir
findTargets(ev, fs, rule, dir) ==
    LET Keep(p) == ~shouldIgnore(ev, p) /\ ~isInsideSkippedDirectory(ev, p)
        fullPath == PathJoin(dir, rule.target)
    IN  IF rule.condition # << >> /\ ~evaluateCondition(ev, fs, rule.condition[1], dir)
        THEN << >>
        ELSE IF isSimplePattern(rule.target)
        THEN IF Exists(fs, fullPath) /\ Keep(fullPath) THEN <<fullPath>> ELSE << >>
        ELSE SelectSeq(Glob(fs, rule.target, dir), Keep)

\* an emitted notification: its type, the path it is about, for file:found
\* the rule (its index) and the directory, and the count it carries
Event(type, path, rule, directory, n) ==
    [type |-> type, path |-> path, rule |-> rule, directory |-> directory, n |-> n]

\* the file:found notifications of one directory, in rule order
FoundAt(ev, fs, dir) ==
    LET Hits(k) ==
            LET Found(t) == [j \in 1..Len(t) |-> Event("file:found", t[j], k, dir, 0)]
            IN  IF ev.rules[k].action = "delete"
                THEN With(findTargets(ev, fs, ev.rules[k], dir), Found)
                ELSE << >>
        acc[k \in 0..Len(ev.rules)] == IF k = 0 THEN << >> ELSE acc[k - 1] \o Hits(k)
    IN  acc[Len(ev.rules)]

\* mutant: every path is appended, known or not
SetOrder_append(acc, seq) == acc \o seq

\* new Set(...) filled in order, then Array.from
RECURSIVE SetOrder(_, _)
SetOrder(acc, seq) ==
    IF seq = << >> THEN acc
    ELSE IF \E i \in 1..Len(acc) : acc[i] = Head(seq) THEN SetOrder(acc, Tail(seq))
    ELSE SetOrder(Append(acc, Head(seq)), Tail(seq))

\* Evaluator.evaluate(): the notifications emitted, in order, and the targets
evaluate(ev, fs) ==
    LET PerDir(d) == <<Event("scan:directory", d, 0, d, 0)>> \o FoundAt(ev, fs, d)
        IsFound(e) == e.type = "file:found"
        Result(directories, body, targetsList) ==
            [directories |-> directories,
             targets |-> targetsList,
             events |-> <<Event("scan:start", ev.baseDir, 0, ev.baseDir, Len(ev.rules))>>
                        \o body
                        \o <<Event("scan:complete", ev.baseDir, 0, ev.baseDir,
                                   Len(targetsList))>>]
        Scanned(directories) ==
            LET acc[i \in 0..Len(directories)] ==
                    IF i = 0 THEN << >> ELSE acc[i - 1] \o With(directories[i], PerDir)
                Collected(body) ==
                    LET Paths(found) == SetOrder(<< >>, [j \in 1..Len(found) |-> found[j].path])
                        Done(targetsList) == Result(directories, body, targetsList)
                    IN  With(With(SelectSeq(body, IsFound), Paths), Done)
            IN  With(acc[Len(directories)], Collected)
    IN  With(getAllDirectories(ev, fs, ev.baseDir), Scanned)

\* one step of the evaluation of rule k at a directory: a predicate of the
\* chain is evaluated ("predicate"), the directories of a location are
\* collected ("getLocationDirs"), Evaluator.exists looks for a pattern in
\* dir ("exists"), the target is looked up ("target")
Check(op, rule, directory, predicate, dir, pattern) ==
    [op |-> op, rule |-> rule, directory |-> directory, predicate |-> predicate,
     dir |-> dir, pattern |-> pattern]

\* the steps of Evaluator.evaluatePredicate(predicate, currentDir): the
\* loop over the directories stops at the first one that has the pattern
RECURSIVE evaluatePredicateSteps(_, _, _, _, _)
evaluatePredicateSteps(ev, fs, k, predicate, currentDir) ==
    IF predicate.type = "not" THEN
        IF predicate.negated = << >> THEN << >>
        ELSE evaluatePredicateSteps(ev, fs, k, predicate.negated[1], currentDir)
    ELSE IF predicate.type = "exists" THEN
        LET Looked(dirs) ==
                LET hits == {i \in 1..Len(dirs) : exists(fs, dirs[i], predicate.pattern)}
                    n == IF hits = {} THEN Len(dirs)
                         ELSE CHOOSE i \in hits : \A j \in hits : i <= j
                IN  [i \in 1..n |->
                        Check("exists", k, currentDir, << >>, dirs[i], predicate.pattern)]
        IN  <<Check("getLocationDirs", k, currentDir, <<predicate>>, currentDir, << >>)>>
            \o With(getLocationDirs(ev, fs, currentDir, predicate.location), Looked)
    ELSE << >>

\* mutant: every predicate of the chain is evaluated
RECURSIVE evaluateConditionSteps_eager(_, _, _, _, _)
evaluateConditionSteps_eager(ev, fs, k, condition, currentDir) ==
    LET Evaluated(predicate) ==
            <<Check("predicate", k, currentDir, <<predicate>>, currentDir, << >>)>>
            \o evaluatePredicateSteps(ev, fs, k, predicate, currentDir)
    IN  IF condition.type = "predicate" THEN
            IF condition.predicate = << >> THEN << >>
            ELSE Evaluated(condition.predicate[1])
        ELSE IF condition.type = "and" THEN
            IF condition.left = << >> \/ condition.right = << >> THEN << >>
            ELSE Evaluated(condition.left[1])
                 \o IF condition.right[1].type \in {"and", "predicate"}
                    THEN evaluateConditionSteps_eager(ev, fs, k, condition.right[1],
                                                      currentDir)
                    ELSE Evaluated(condition.right[1])
        ELSE << >>

\* the steps of Evaluator.evaluateCondition(condition, currentDir)
RECURSIVE evaluateConditionSteps(_, _, _, _, _)
evaluateConditionSteps(ev, fs, k, condition, currentDir) ==
    LET Evaluated(predicate) ==
            <<Check("predicate", k, currentDir, <<predicate>>, currentDir, << >>)>>
            \o evaluatePredicateSteps(ev, fs, k, predicate, currentDir)
    IN  IF condition.type = "predicate" THEN
            IF condition.predicate = << >> THEN << >>
            ELSE Evaluated(condition.predicate[1])
        ELSE IF condition.type = "and" THEN
            IF condition.left = << >> \/ condition.right = << >> THEN << >>
            ELSE Evaluated(condition.left[1])
                 \o IF ~evaluatePredicate(ev, fs, condition.left[1], currentDir)
                    THEN << >>
                    ELSE IF condition.right[1].type \in {"and", "predicate"}
                    THEN evaluateConditionSteps(ev, fs, k, condition.right[1], currentDir)
                    ELSE Evaluated(condition.right[1])
        ELSE << >>

\* the steps of Evaluator.findTargets(rule, dir): the condition first, the
\* target only when the condition is met
findTargetsSteps(ev, fs, k, dir) ==
    LET rule == ev.rules[k]
        Lookup == <<Check("target", k, dir, << >>, dir, rule.target)>>
    IN  IF rule.condition = << >> THEN Lookup
        ELSE evaluateConditionSteps(ev, fs, k, rule.condition[1], dir)
             \o IF evaluateCondition(ev, fs, rule.condition[1], dir) THEN Lookup ELSE << >>

\* the steps of Evaluator.evaluate(): every delete rule at every directory
evaluateSteps(ev, fs) ==
    LET Rules(d) ==
            LET acc[k \in 0..Len(ev.rules)] ==
                    IF k = 0 THEN << >>
                    ELSE acc[k - 1] \o IF ev.rules[k].action = "delete"
                                       THEN findTargetsSteps(ev, fs, k, d) ELSE << >>
            IN  acc[Len(ev.rules)]
        Scanned(directories) ==
            LET acc[i \in 0..Len(directories)] ==
                    IF i = 0 THEN << >> ELSE acc[i - 1] \o With(directories[i], Rules)
            IN  acc[Len(directories)]
    IN  With(getAllDirectories(ev, fs, ev.baseDir), Scanned)

\* what is visible of the tree when the listings <<0, d>> of f fail: a
\* directory that cannot be listed shows nothing beneath it
Seen(fs, f) ==
    [q \in {p \in DOMAIN fs : \A e \in f : e[1] = 0 => ~IsBeneath(p, e[2])} |-> fs[q]]

\* Evaluator.findTargets(rule, dir) gets as far as expanding the pattern
GlobCalled(ev, fs, rule, dir) ==
    /\ rule.condition = << >> \/ evaluateCondition(ev, fs, rule.condition[1], dir)
    /\ ~isSimplePattern(rule.target)

\* the rules of evaluate() at directory d from rule k on; an expansion that
\* fails emits "error", which throws when no listener is registered for it
RECURSIVE evaluateRulesAt(_, _, _, _)
evaluateRulesAt(cx, d, k, st) ==
    IF st.thrown \/ k > Len(cx.ev.rules) THEN st
    ELSE IF cx.ev.rules[k].action # "delete" THEN evaluateRulesAt(cx, d, k + 1, st)
    ELSE IF <<k, d>> \in cx.faults /\ GlobCalled(cx.ev, cx.fs, cx.ev.rules[k], d)
    THEN IF cx.errorListener
         THEN evaluateRulesAt(cx, d, k + 1,
                              [st EXCEPT !.events = Append(@, Event("error", d, 0, d, 0))])
         ELSE [st EXCEPT !.thrown = TRUE]
    ELSE LET Found(t) == [j \in 1..Len(t) |-> Event("file:found", t[j], k, d, 0)]
         IN  evaluateRulesAt(cx, d, k + 1,
                 [st EXCEPT !.events =
                      @ \o With(findTargets(cx.ev, cx.fs, cx.ev.rules[k], d), Found)])

\* the directories of evaluate() from the i-th on
RECURSIVE evaluateDirectories(_, _, _)
evaluateDirectories(cx, i, st) ==
    IF st.thrown \/ i > Len(cx.directories) THEN st
    ELSE evaluateDirectories(cx, i + 1,
             evaluateRulesAt(cx, cx.directories[i], 1,
                 [st EXCEPT !.events =
                      Append(@, Event("scan:directory", cx.directories[i], 0,
                                      cx.directories[i], 0))]))

\* Evaluator.evaluate() when the listings and expansions of f fail: the
\* notifications emitted, the targets, and whether it threw
evaluateWithFaults(ev, fs, f, errorListener) ==
    LET IsFound(e) == e.type = "file:found"
        Paths(found) == SetOrder(<< >>, [j \in 1..Len(found) |-> found[j].path])
        Finish(cx) ==
            LET Done(st) ==
                    LET Return(targetsList) ==
                            [directories |-> cx.directories,
                             targets |-> targetsList,
                             thrown |-> st.thrown,
                             events |-> IF st.thrown THEN st.events
                                        ELSE Append(st.events,
                                                    Event("scan:complete", ev.baseDir, 0,
                                                          ev.baseDir, Len(targetsList)))]
                    IN  With(With(SelectSeq(st.events, IsFound), Paths), Return)
            IN  With(evaluateDirectories(cx, 1,
                         [thrown |-> FALSE,
                          events |-> <<Event("scan:start", ev.baseDir, 0, ev.baseDir,
                                             Len(ev.rules))>>]),
                     Done)
        Start(seen) ==
            With([ev |-> ev, fs |-> seen, faults |-> f, errorListener |-> errorListener,
                  directories |-> getAllDirectories(ev, seen, ev.baseDir)], Finish)
    IN  With(Seen(fs, f), Start)

\* the steps of Evaluator.evaluate() when the listings and expansions of f
\* fail: an expansion that throws ends them
evaluateStepsWithFaults(ev, fs, f, errorListener) ==
    LET Cut(all) ==
            LET failing == {i \in 1..Len(all) :
                               /\ all[i].op = "target"
                               /\ <<all[i].rule, all[i].directory>> \in f
                               /\ ~isSimplePattern(all[i].pattern)}
            IN  IF errorListener \/ failing = {} THEN all
                ELSE SubSeq(all, 1, CHOOSE i \in failing : \A j \in failing : i <= j)
    IN  With(evaluateSteps(ev, Seen(fs, f)), Cut)

(***************************************************************************)
(* The tokenizer and the parser.  A text is a sequence of characters; the  *)
(* value of a token, and so the target and the patterns of a parsed rule,  *)
(* is a sequence of characters too.                                        *)
(***************************************************************************)
Letters ==
    {"a", "b", "c", "d", "e", "f", "g", "h", "i", "j", "k", "l", "m", "n",
     "o", "p", "q", "r", "s", "t", "u", "v", "w", "x", "y", "z", "A", "B",
     "C", "D", "E", "F", "G", "H", "I", "J", "K", "L", "M", "N", "O", "P",
     "Q", "R", "S", "T", "U", "V", "W", "X", "Y", "Z"}
Digits == {"0", "1", "2", "3", "4", "5", "6", "7", "8", "9"}

\* /[a-zA-Z0-9_.*/]/ starts an identifier, /[a-zA-Z0-9_.\-*/]/ continues it
IdentifierStart == Letters \cup Digits \cup {"_", ".", "*", "/"}
IdentifierChar == IdentifierStart \cup {"-"}

\* the words of the rule language, as characters
Word ==
    [delete |-> <<"d", "e", "l", "e", "t", "e">>,
     ignore |-> <<"i", "g", "n", "o", "r", "e">>,
     when |-> <<"w", "h", "e", "n">>,
     exists |-> <<"e", "x", "i", "s", "t", "s">>,
     and |-> <<"a", "n", "d">>,
     not |-> <<"n", "o", "t">>,
     here |-> <<"h", "e", "r", "e">>,
     parent |-> <<"p", "a", "r", "e", "n", "t">>,
     parents |-> <<"p", "a", "r", "e", "n", "t", "s">>,
     child |-> <<"c", "h", "i", "l", "d">>,
     children |-> <<"c", "h", "i", "l", "d", "r", "e", "n">>,
     sibling |-> <<"s", "i", "b", "l", "i", "n", "g">>,
     skip |-> <<"s", "k", "i", "p">>]

KEYWORDS ==
    {Word.delete, Word.ignore, Word.when, Word.exists, Word.and, Word.not, Word.here,
     Word.parent, Word.parents, Word.child, Word.children, Word.sibling}

Token(type, value) == [type |-> type, value |-> value]

\* Tokenizer.skipWhitespace: the position of the next character that is not
\* a blank, a tab or a carriage return
RECURSIVE skipWhitespace(_, _)
skipWhitespace(input, pos) ==
    IF pos <= Len(input) /\ input[pos] \in {" ", "\t", "\r"}
    THEN skipWhitespace(input, pos + 1)
    ELSE pos

\* String.prototype.trim on the characters of a comment
RECURSIVE Trim(_)
Trim(value) ==
    IF value = << >> THEN value
    ELSE IF Head(value) \in {" ", "\t", "\r", "\n"} THEN Trim(Tail(value))
    ELSE IF Last(value) \in {" ", "\t", "\r", "\n"} THEN Trim(Front(value))
    ELSE value

\* Tokenizer.readComment, from the character after the #
RECURSIVE readComment(_, _, _)
readComment(input, pos, value) ==
    IF pos <= Len(input) /\ input[pos] # "\n"
    THEN readComment(input, pos + 1, Append(value, input[pos]))
    ELSE [token |-> Token("comment", Trim(value)), pos |-> pos]

\* mutant: the escaped character is kept as it is
Unescape_raw(c) == c

\* the character an escape sequence stands for
Unescape(c) == CASE c = "n" -> "\n" [] c = "t" -> "\t" [] OTHER -> c

\* Tokenizer.readQuotedString, from the character after the opening quote
\* mutant: the end of the line ends the string as well
RECURSIVE readQuotedString_line(_, _, _, _)
readQuotedString_line(input, pos, quoteChar, value) ==
    IF pos > Len(input) THEN [token |-> Token("string", value), pos |-> pos]
    ELSE IF input[pos] = quoteChar THEN [token |-> Token("string", value), pos |-> pos + 1]
    ELSE IF input[pos] = "\n" THEN [token |-> Token("string", value), pos |-> pos]
    ELSE IF input[pos] = "\\"
    THEN IF pos + 1 <= Len(input)
         THEN readQuotedString_line(input, pos + 2, quoteChar,
                                    Append(value, Unescape(input[pos + 1])))
         ELSE readQuotedString_line(input, pos + 1, quoteChar, value)
    ELSE readQuotedString_line(input, pos + 1, quoteChar, Append(value, input[pos]))

RECURSIVE readQuotedString(_, _, _, _)
readQuotedString(input, pos, quoteChar, value) ==
    IF pos > Len(input) THEN [token |-> Token("string", value), pos |-> pos]
    ELSE IF input[pos] = quoteChar THEN [token |-> Token("string", value), pos |-> pos + 1]
    ELSE IF input[pos] = "\\"
    THEN IF pos + 1 <= Len(input)
         THEN readQuotedString(input, pos + 2, quoteChar,
                               Append(value, Unescape(input[pos + 1])))
         ELSE readQuotedString(input, pos + 1, quoteChar, value)
    ELSE readQuotedString(input, pos + 1, quoteChar, Append(value, input[pos]))

\* Tokenizer.readIdentifier
RECURSIVE readIdentifier(_, _, _)
readIdentifier(input, pos, value) ==
    IF pos <= Len(input) /\ input[pos] \in IdentifierChar
    THEN readIdentifier(input, pos + 1, Append(value, input[pos]))
    ELSE [token |-> Token(IF value \in KEYWORDS THEN "keyword" ELSE "identifier", value),
          pos |-> pos]

\* Tokenizer.tokenize, from position pos0 on
RECURSIVE tokenizeFrom(_, _, _)
tokenizeFrom(input, pos0, tokens) ==
    LET Read(r) == tokenizeFrom(input, r.pos, Append(tokens, r.token))
        At(pos) ==
            IF pos > Len(input) THEN Append(tokens, Token("eof", << >>))
            ELSE IF input[pos] = "\n" THEN tokenizeFrom(input, pos + 1, tokens)
            ELSE IF input[pos] = "#" THEN With(readComment(input, pos + 1, << >>), Read)
            ELSE IF input[pos] \in {"\"", "'"}
            THEN With(readQuotedString(input, pos + 1, input[pos], << >>), Read)
            ELSE IF input[pos] \in IdentifierStart
            THEN With(readIdentifier(input, pos, << >>), Read)
            ELSE tokenizeFrom(input, pos + 1, tokens)
    IN  With(skipWhitespace(input, pos0), At)

\* tokenize(input)
tokenize(input) == tokenizeFrom(input, 1, << >>)

\* Parser.peek: the token at pos; past the end there is none, and its type
\* and value equal nothing
NoToken == Token("undefined", <<"undefined">>)
Peek(tokens, pos) == IF pos <= Len(tokens) THEN tokens[pos] ELSE NoToken

\* the outcome of a parsing function: the value and the next position, or
\* the error it throws
Parsed(value, pos) == [ok |-> TRUE, value |-> value, pos |-> pos]
ParseError(pos) == [ok |-> FALSE, value |-> << >>, pos |-> pos]

\* Parser.parseLocation
parseLocation(tokens, pos) ==
    IF /\ Peek(tokens, pos).type = "keyword"
       /\ Peek(tokens, pos).value \in {Word.here, Word.parent, Word.parents, Word.child,
                                       Word.children, Word.sibling}
    THEN Parsed(Peek(tokens, pos).value, pos + 1)
    ELSE Parsed(Word.here, pos)

\* Parser.parsePredicate
RECURSIVE parsePredicate(_, _)
parsePredicate(tokens, pos) ==
    IF Peek(tokens, pos).value = Word.not
    THEN LET Negate(r) == IF r.ok THEN Parsed(NotPredicate(r.value), r.pos) ELSE r
         IN  With(parsePredicate(tokens, pos + 1), Negate)
    ELSE LET After(loc) ==
                 IF Peek(tokens, loc.pos).value # Word.exists THEN ParseError(loc.pos)
                 ELSE IF Peek(tokens, loc.pos + 1).type \notin {"identifier", "string"}
                 THEN ParseError(loc.pos + 1)
                 ELSE Parsed(ExistsPredicate(loc.value, Peek(tokens, loc.pos + 1).value),
                             loc.pos + 2)
         IN  With(parseLocation(tokens, pos), After)

\* Parser.parseCondition: the predicates chained with and
RECURSIVE parsePredicates(_, _)
parsePredicates(tokens, pos) ==
    LET More(first) ==
            IF ~first.ok THEN first
            ELSE IF Peek(tokens, first.pos).value = Word.and
            THEN LET Join(rest) ==
                         IF rest.ok THEN Parsed(<<first.value>> \o rest.value, rest.pos)
                         ELSE rest
                 IN  With(parsePredicates(tokens, first.pos + 1), Join)
            ELSE Parsed(<<first.value>>, first.pos)
    IN  With(parsePredicate(tokens, pos), More)

\* Parser.parseCondition: a and (b and c), built from the right
RECURSIVE chain(_)
chain(predicates) ==
    IF Len(predicates) = 2 THEN AndCondition(predicates[1], predicates[2])
    ELSE AndCondition(Head(predicates), chain(Tail(predicates)))

\* Parser.parseCondition
parseCondition(tokens, pos) ==
    LET Build(r) ==
            IF ~r.ok THEN r
            ELSE IF Len(r.value) = 1 THEN Parsed(PredicateCondition(r.value[1]), r.pos)
            ELSE Parsed(chain(r.value), r.pos)
    IN  With(parsePredicates(tokens, pos), Build)

\* mutant: a condition is parsed after the target of any rule
parseRule_anyAction(tokens, pos) ==
    IF Peek(tokens, pos).value \notin {Word.delete, Word.ignore, Word.skip}
    THEN ParseError(pos)
    ELSE IF Peek(tokens, pos + 1).type \notin {"identifier", "string"}
    THEN ParseError(pos + 1)
    ELSE IF Peek(tokens, pos + 2).value = Word.when
    THEN LET Finish(c) ==
                 IF c.ok
                 THEN Parsed(Rule(Peek(tokens, pos).value, Peek(tokens, pos + 1).value,
                                  <<c.value>>), c.pos)
                 ELSE c
         IN  With(parseCondition(tokens, pos + 3), Finish)
    ELSE Parsed(Rule(Peek(tokens, pos).value, Peek(tokens, pos + 1).value, << >>), pos + 2)

\* Parser.parseRule, at a token that is not the end of the text
parseRule(tokens, pos) ==
    IF Peek(tokens, pos).value \notin {Word.delete, Word.ignore, Word.skip}
    THEN ParseError(pos)
    ELSE IF Peek(tokens, pos + 1).type \notin {"identifier", "string"}
    THEN ParseError(pos + 1)
    ELSE IF Peek(tokens, pos).value = Word.delete /\ Peek(tokens, pos + 2).value = Word.when
    THEN LET Finish(c) ==
                 IF c.ok
                 THEN Parsed(Rule(Peek(tokens, pos).value, Peek(tokens, pos + 1).value,
                                  <<c.value>>), c.pos)
                 ELSE c
         IN  With(parseCondition(tokens, pos + 3), Finish)
    ELSE Parsed(Rule(Peek(tokens, pos).value, Peek(tokens, pos + 1).value, << >>), pos + 2)

\* Parser.parse, from position pos on
RECURSIVE parseFrom(_, _, _)
parseFrom(tokens, pos, rules) ==
    IF Peek(tokens, pos).type = "eof" THEN Parsed(rules, pos)
    ELSE LET Next1(r) == IF r.ok THEN parseFrom(tokens, r.pos, Append(rules, r.value)) ELSE r
         IN  With(parseRule(tokens, pos), Next1)

\* parse(tokens): the comments are dropped first
parse(tokens) ==
    LET NotComment(t) == t.type # "comment"
    IN  parseFrom(SelectSeq(tokens, NotComment), 1, << >>)

(***************************************************************************)
(* The validator.                                                          *)
(***************************************************************************)
DANGEROUS_PATTERNS == {<<"*">>, <<"**">>, <<"*.*">>, <<"**", "*">>}

\* mutant: only the listed patterns are dangerous
isDangerousPattern_listed(pattern) == pattern \in DANGEROUS_PATTERNS

isDangerousPattern(pattern) ==
    pattern \in DANGEROUS_PATTERNS \/ pattern = <<"**", "*.*">>

\* validateRule(rule): the error of the rule, if it has one
validateRule(rule) ==
    IF rule.action # "delete" THEN [valid |-> TRUE, error |-> << >>]
    ELSE IF isDangerousPattern(rule.target) THEN
        IF rule.condition # << >> THEN [valid |-> TRUE, error |-> << >>]
        ELSE [valid |-> FALSE, error |-> <<"Dangerous pattern detected", rule.target>>]
    ELSE [valid |-> TRUE, error |-> << >>]

validateRules(rules) ==
    LET Bad(r) == ~validateRule(r).valid
        bad == SelectSeq(rules, Bad)
        errs == [i \in 1..Len(bad) |-> [rule |-> bad[i], error |-> validateRule(bad[i]).error]]
    IN  [valid |-> Len(errs) = 0, errors |-> errs]

(***************************************************************************)
(* Evaluator.execute and DedustResult.execute.                             *)
(***************************************************************************)
\* a.split(path.sep).length of an absolute path
Depth(p) == IF p = << >> THEN 2 ELSE Len(p) + 1

\* mutant: shallower paths first
compareDepth_shallow(a, b) == Depth(a) - Depth(b)

\* the comparator of the sort in execute: negative when a goes before b
compareDepth(a, b) == Depth(b) - Depth(a)

\* Array.prototype.sort with that comparator (a stable sort)
RECURSIVE InsertSorted(_, _)
InsertSorted(sorted, x) ==
    IF sorted = << >> THEN <<x>>
    ELSE IF compareDepth(Last(sorted), x) <= 0 THEN Append(sorted, x)
    ELSE Append(InsertSorted(Front(sorted), x), Last(sorted))

sortTargets(targets) ==
    LET acc[i \in 0..Len(targets)] ==
            IF i = 0 THEN << >> ELSE InsertSorted(acc[i - 1], targets[i])
    IN  acc[Len(targets)]

\* fsp.rm / fsp.unlink of a target: it succeeds, or it throws and the path
\* stays in place
Outcomes == {"ok", "fail"}
AfterRemoval(fs, target, outcome) ==
    IF outcome = "ok" THEN RemoveTree(fs, target) ELSE fs

\* options.onError is set / any listener option is set
hasErrorListener(c) == c.listeners = "error"
hasListeners(c) == c.listeners # "none"

\* DedustResult.execute groups the targets by the first base directory, as
\* the caller wrote it, that the target starts with
targetsOfDir(c, targets, k) ==
    LET Mine(t) == /\ StartsWithDir(t, c.baseDirs[k])
                   /\ \A j \in 1..(k - 1) : ~StartsWithDir(t, c.baseDirs[j])
    IN  SelectSeq(targets, Mine)

\* the next base directory, from index k on, that has targets; 0 if none
nextGroup(c, targets, k) ==
    LET has == {j \in k..Len(c.baseDirs) : targetsOfDir(c, targets, j) # << >>}
    IN  IF has = {} THEN 0 ELSE CHOOSE j \in has : \A i \in has : j <= i

\* DedustResult.execute without listeners: stat every target, unlink the
\* files, then remove the directories that still exist and list the
\* targets beneath them as deleted; failing holds the paths whose removal
\* throws
directExecute(fs, targets, failing) ==
    LET IsFile(t) == Exists(fs, t) /\ ~IsDirectory(fs, t)
        IsDir(t) == IsDirectory(fs, t)
        Gone(t) == ~Exists(fs, t)
        gone == SelectSeq(targets, Gone)
        files == SelectSeq(targets, IsFile)
        directories == SelectSeq(targets, IsDir)
        start == [fs |-> fs, deleted |-> << >>,
                  errors |-> [i \in 1..Len(gone) |-> [path |-> gone[i], error |-> "ENOENT"]]]
        Unlink(st, f) ==
            IF f \in failing
            THEN [st EXCEPT !.errors = Append(@, [path |-> f, error |-> "EACCES"])]
            ELSE [st EXCEPT !.fs = RemoveTree(@, f), !.deleted = Append(@, f)]
        afterFiles[i \in 0..Len(files)] ==
            IF i = 0 THEN start ELSE Unlink(afterFiles[i - 1], files[i])
        Rm(st, d) ==
            IF ~Exists(st.fs, d) THEN st
            ELSE IF d \in failing
            THEN [st EXCEPT !.errors = Append(@, [path |-> d, error |-> "EACCES"])]
            ELSE LET del == Append(st.deleted, d)
                     Child(t) == t # d /\ IsBeneath(t, d)
                 IN  [st EXCEPT !.fs = RemoveTree(@, d),
                                !.deleted = SetOrder(del, SelectSeq(targets, Child))]
        afterDirs[i \in 0..Len(directories)] ==
            IF i = 0 THEN afterFiles[Len(files)] ELSE Rm(afterDirs[i - 1], directories[i])
    IN  afterDirs[Len(directories)]

(***************************************************************************)
(* The state machine: one call of an entry point, from its arguments to    *)
(* its return or its exception.                                            *)
(***************************************************************************)
VARIABLES
    fs,          \* the filesystem
    fs0,         \* the filesystem when the call was made
    call,        \* the arguments of the call
    pc,          \* where the call is
    di,          \* index of the base directory being processed
    validation,  \* the result of validateRules, << >> before it ran
    events,      \* the notifications emitted so far, in order
    listed,      \* the directories visited so far, in order
    allTargets,  \* the targets found so far (findTargets, dedust)
    pending,     \* the targets handed to Evaluator.execute
    queue,       \* sortedTargets not processed yet
    attempted,   \* the targets execute has processed, in order
    deleted,     \* deleted of the execute in progress
    errors,      \* errors of the execute in progress
    allDeleted,  \* deleted as returned to the caller
    allErrors,   \* errors as returned to the caller
    thrown,      \* the exception the call ended with, "" if none
    tokenized,   \* the tokens of the rule text, << >> before tokenize ran
    parsedRules, \* the rules parse returned, << >> before it ran
    faults,      \* the directory listings <<0, d>> and the expansions <<k, d>> of
                 \* the target of rule k at directory d that fail
    checked      \* the steps the scans took so far, in order

vars == <<fs, fs0, call, pc, di, validation, events, listed, allTargets, pending,
          queue, attempted, deleted, errors, allDeleted, allErrors, thrown, faults,
          tokenized, parsedRules, checked>>

\* the Evaluator the call constructs for its k-th base directory
evaluatorOf(c, k) == NewEvaluator(c.rules, c.baseDirs[k], c.ignore, c.skip)

\* mutant: validation never fails
validationFails_never(c) == FALSE

\* index.js findTargets / executeCleanup: validation comes first
validationFails(c) == ~c.skipValidation /\ ~validateRules(c.rules).valid

Validate ==
    /\ pc = "call"
    /\ validation' = IF call.skipValidation THEN << >> ELSE <<validateRules(call.rules)>>
    /\ IF validationFails(call)
       THEN pc' = "threw" /\ thrown' = "ValidationError"
       ELSE pc' = "scan" /\ thrown' = thrown
    /\ UNCHANGED <<checked, tokenized, parsedRules, faults, fs, fs0, call, di, events,
                   listed, allTargets, pending, queue, attempted, deleted, errors,
                   allDeleted, allErrors>>

\* validateRules(rules) called on its own
ValidateRules ==
    /\ pc = "validate"
    /\ validation' = <<validateRules(call.rules)>>
    /\ pc' = "returned"
    /\ UNCHANGED <<checked, tokenized, parsedRules, faults, fs, fs0, call, di, events,
                   listed, allTargets, pending, queue, attempted, deleted, errors,
                   allDeleted, allErrors, thrown>>

\* mutant: the scan removes the targets it finds
Scan_removing ==
    /\ pc = "scan"
    /\ \E ev \in {evaluatorOf(call, di)} : \E r \in {evaluate(ev, fs)} :
           /\ allTargets' = SetOrder(allTargets, r.targets)
           /\ checked' = checked \o evaluateSteps(ev, fs)
           /\ fs' = [q \in {p \in DOMAIN fs :
                                \A i \in 1..Len(r.targets) : ~IsPrefix(r.targets[i], p)}
                        |-> fs[q]]
    /\ pc' = IF call.api = "findTargets" THEN "returned" ELSE "result"
    /\ UNCHANGED <<tokenized, parsedRules, faults, fs0, call, di, validation,
                   events, listed, pending, queue, attempted, deleted, errors, allDeleted,
                   allErrors, thrown>>

\* Evaluator.evaluate() for the current base directory, and what the entry
\* point does with the targets
Scan ==
    /\ pc = "scan"
    /\ \E ev \in {evaluatorOf(call, di)} : \E r \in {evaluate(ev, fs)} :
           /\ events' = events \o r.events
           /\ listed' = listed \o r.directories
           /\ checked' = checked \o evaluateSteps(ev, fs)
           /\ IF call.api = "executeCleanup"
              THEN /\ pending' = r.targets
                   /\ pc' = "execute"
                   /\ UNCHANGED <<allTargets, di>>
              ELSE /\ allTargets' = SetOrder(allTargets, r.targets)
                   /\ pending' = pending
                   /\ IF di < Len(call.baseDirs)
                      THEN di' = di + 1 /\ pc' = "scan"
                      ELSE di' = di /\ pc' = IF call.api = "findTargets"
                                             THEN "returned" ELSE "result"
    /\ UNCHANGED <<tokenized, parsedRules, faults, fs, fs0, call, validation,
                   queue, attempted, deleted, errors, allDeleted, allErrors, thrown>>

\* findTargets when listings and expansions fail: Evaluator.evaluate() for
\* the base directory, which returns the targets or throws
ScanFaulty ==
    /\ pc = "scan"
    /\ \E ev \in {evaluatorOf(call, di)} :
       \E r \in {evaluateWithFaults(ev, fs, faults, hasErrorListener(call))} :
           /\ events' = events \o r.events
           /\ listed' = listed \o r.directories
           /\ checked' = checked \o evaluateStepsWithFaults(ev, fs, faults,
                                                            hasErrorListener(call))
           /\ IF r.thrown
              THEN /\ pc' = "threw"
                   /\ thrown' = "ERR_UNHANDLED_ERROR"
                   /\ allTargets' = allTargets
              ELSE /\ pc' = "returned"
                   /\ thrown' = thrown
                   /\ allTargets' = SetOrder(allTargets, r.targets)
    /\ UNCHANGED <<tokenized, parsedRules, faults, fs, fs0, call, di, validation,
                   pending, queue, attempted, deleted, errors, allDeleted, allErrors>>

\* tokenize(input) on the rule text of the call
Tokenize ==
    /\ pc = "tokenize"
    /\ tokenized' = tokenize(call.rules)
    /\ pc' = "parse"
    /\ UNCHANGED <<checked, parsedRules, faults, fs, fs0, call, di, validation, events,
                   listed, allTargets, pending, queue, attempted, deleted, errors,
                   allDeleted, allErrors, thrown>>

\* parse(tokens): the rules, or the Error of the first rule that is wrong
Parse ==
    /\ pc = "parse"
    /\ \E r \in {parse(tokenized)} :
          IF r.ok
          THEN parsedRules' = r.value /\ pc' = "returned" /\ thrown' = thrown
          ELSE parsedRules' = parsedRules /\ pc' = "threw" /\ thrown' = "Error"
    /\ UNCHANGED <<checked, tokenized, faults, fs, fs0, call, di, validation, events,
                   listed, allTargets, pending, queue, attempted, deleted, errors,
                   allDeleted, allErrors>>

\* Evaluator.execute(targets): the sort
ExecuteStart ==
    /\ pc = "execute"
    /\ queue' = sortTargets(pending)
    /\ attempted' = << >>
    /\ deleted' = << >>
    /\ errors' = << >>
    /\ pc' = "deleting"
    /\ UNCHANGED <<checked, tokenized, parsedRules, faults, fs, fs0, call, di, validation,
                   events, listed, allTargets, pending, allDeleted, allErrors, thrown>>

\* Evaluator.execute(targets): one turn of the loop
ExecuteTarget ==
    /\ pc = "deleting"
    /\ queue # << >>
    /\ LET target == Head(queue)
       IN  /\ queue' = Tail(queue)
           /\ attempted' = Append(attempted, target)
           /\ IF ~Exists(fs, target)
              THEN UNCHANGED <<fs, deleted, errors, events, pc, thrown>>
              ELSE \E outcome \in Outcomes :
                    /\ fs' = AfterRemoval(fs, target, outcome)
                    /\ IF outcome = "ok"
                       THEN /\ deleted' = Append(deleted, target)
                            /\ events' = Append(events,
                                   Event("file:deleted", target, 0, target,
                                         IF IsDirectory(fs, target) THEN 1 ELSE 0))
                            /\ UNCHANGED <<errors, pc, thrown>>
                       ELSE /\ errors' = Append(errors, [path |-> target, error |-> "EACCES"])
                            /\ events' = Append(events, Event("error", target, 0, target, 0))
                            /\ deleted' = deleted
                            /\ IF hasErrorListener(call)
                               THEN UNCHANGED <<pc, thrown>>
                               ELSE pc' = "threw" /\ thrown' = "ERR_UNHANDLED_ERROR"
    /\ UNCHANGED <<checked, tokenized, parsedRules, faults, fs0, call, di, validation,
                   listed, allTargets, pending, allDeleted, allErrors>>

\* Evaluator.execute(targets) returns; the entry point collects the result
\* and goes on to its next base directory
ExecuteReturn ==
    /\ pc = "deleting"
    /\ queue = << >>
    /\ allDeleted' = allDeleted \o deleted
    /\ allErrors' = allErrors \o errors
    /\ CASE call.api = "executeCleanup" ->
                /\ pending' = pending
                /\ IF di < Len(call.baseDirs)
                   THEN di' = di + 1 /\ pc' = "scan"
                   ELSE di' = di /\ pc' = "returned"
         [] call.api = "dedust" ->
                LET g == nextGroup(call, allTargets, di + 1)
                IN  IF g = 0
                    THEN pc' = "returned" /\ UNCHANGED <<di, pending>>
                    ELSE /\ pc' = "execute"
                         /\ di' = g
                         /\ pending' = targetsOfDir(call, allTargets, g)
         [] OTHER -> pc' = "returned" /\ UNCHANGED <<di, pending>>
    /\ UNCHANGED <<checked, tokenized, parsedRules, faults, fs, fs0, call, validation,
                   events, listed, allTargets, queue, attempted, deleted, errors, thrown>>

\* DedustResult.execute() with listeners: an Evaluator per base directory
\* that has targets
ResultExecuteListeners ==
    /\ pc = "result"
    /\ hasListeners(call)
    /\ LET g == nextGroup(call, allTargets, 1)
       IN  IF g = 0
           THEN pc' = "returned" /\ UNCHANGED <<di, pending>>
           ELSE /\ pc' = "execute"
                /\ di' = g
                /\ pending' = targetsOfDir(call, allTargets, g)
    /\ UNCHANGED <<checked, tokenized, parsedRules, faults, fs, fs0, call, validation,
                   events, listed, allTargets, queue, attempted, deleted, errors,
                   allDeleted, allErrors, thrown>>

\* DedustResult.execute() without listeners
ResultExecuteDirect ==
    /\ pc = "result"
    /\ ~hasListeners(call)
    /\ \E failing \in SUBSET {allTargets[i] : i \in 1..Len(allTargets)} :
          LET r == directExecute(fs, allTargets, failing)
          IN  /\ fs' = r.fs
              /\ allDeleted' = r.deleted
              /\ allErrors' = r.errors
    /\ pc' = "returned"
    /\ UNCHANGED <<checked, tokenized, parsedRules, faults, fs0, call, di, validation,
                   events, listed, allTargets, pending, queue, attempted, deleted, errors,
                   thrown>>

\* execute() is called once more on the result of dedust, after a call of it
\* that removed something: its allDeleted and allErrors start empty
ResultExecuteAgain ==
    /\ pc = "returned"
    /\ call.api = "dedust"
    /\ allDeleted # << >>
    /\ pc' = "result"
    /\ allDeleted' = << >>
    /\ allErrors' = << >>
    /\ UNCHANGED <<checked, tokenized, parsedRules, faults, fs, fs0, call, di, validation,
                   events, listed, allTargets, pending, queue, attempted, deleted, errors,
                   thrown>>

(***************************************************************************)
(* The inputs: directory trees, rule texts, calls.                         *)
(***************************************************************************)
BaseDir == <<BaseName>>
Outside == <<OutsideName>>

\* the paths an entry can have below the base directory
Universe ==
    {BaseDir \o <<x>> : x \in Names} \cup {BaseDir \o <<x, y>> : x \in Names, y \in Names}

Shapes ==
    {S \in SUBSET Universe :
        /\ Cardinality(S) <= MaxNodes
        /\ \A p \in S : Len(p) > Len(BaseDir) + 1 => Front(p) \in S}

\* the root, the base directory and a file beside it always exist
FixedEntries == (<< >> :> "dir") @@ (BaseDir :> "dir") @@ (Outside :> "file")

Trees ==
    UNION {{FixedEntries @@ k :
              k \in {f \in [S -> {"file", "dir"}] :
                        \A p \in S : (\E q \in S : Front(q) = p) => f[p] = "dir"}} :
           S \in Shapes}

\* sequences of at most n elements of S
SeqsUpTo(S, n) == UNION {[1..k -> S] : k \in 0..n}

AbsBase == [abs |-> TRUE, segs |-> BaseDir]
RelBase == [abs |-> FALSE, segs |-> BaseDir]

NewCall(api, rules, baseDirs, ignore, skip, skipValidation, listeners, targets) ==
    [api |-> api, rules |-> rules, baseDirs |-> baseDirs, ignore |-> ignore,
     skip |-> skip, skipValidation |-> skipValidation, listeners |-> listeners,
     targets |-> targets]

\* the state when call c is made on tree t, with the failures f to come
InitWithFaults(c, t, f) ==
    /\ fs = t
    /\ fs0 = t
    /\ call = c
    /\ pc = CASE c.api = "execute" -> "execute"
              [] c.api = "validateRules" -> "validate"
              [] c.api \in {"parse", "tokenize"} -> "tokenize"
              [] OTHER -> "call"
    /\ di = 1
    /\ validation = << >>
    /\ events = << >>
    /\ listed = << >>
    /\ allTargets = << >>
    /\ pending = c.targets
    /\ queue = << >>
    /\ attempted = << >>
    /\ deleted = << >>
    /\ errors = << >>
    /\ allDeleted = << >>
    /\ allErrors = << >>
    /\ thrown = ""
    /\ faults = f
    /\ checked = << >>
    /\ tokenized = << >>
    /\ parsedRules = << >>

\* the state when call c is made on tree t and nothing fails
InitWith(c, t) == InitWithFaults(c, t, {})

NoCondition == << >>
WhenExists(pattern) == <<PredicateCondition(ExistsPredicate("here", pattern))>>

\* rule texts of the scan: ignore a, skip a, delete a, delete b.x,
\* delete a/b.x, delete **/b.x, delete *, delete a when exists b.x
ScanRules ==
    {Rule("ignore", <<"a">>, NoCondition),
     Rule("skip", <<"a">>, NoCondition),
     Rule("delete", <<"a">>, NoCondition),
     Rule("delete", <<"b.x">>, NoCondition),
     Rule("delete", <<"a", "b.x">>, NoCondition),
     Rule("delete", <<"**", "b.x">>, NoCondition),
     Rule("delete", <<"*">>, NoCondition),
     Rule("delete", <<"a">>, WhenExists(<<"b.x">>))}

\* the ignore and skip options: none, a/**, *.*
IgnoreOptions == {<< >>, << <<"a", "**">> >>, << <<"*.*">> >>}
SkipOptions == {<< >>, << <<"a", "**">> >>}

ScanCalls ==
    {NewCall("findTargets", rules, <<AbsBase>>, ignore, skip, TRUE, "none", << >>) :
        rules \in SeqsUpTo(ScanRules, MaxRules), ignore \in IgnoreOptions, skip \in SkipOptions}

Init == \E c \in ScanCalls, t \in Trees : InitWith(c, t)

Next == Validate \/ Scan

\* a scan of one base directory through findTargets
Spec == Init /\ [][Next]_vars

\* the entry points of index.js: findTargets, executeCleanup, and dedust
\* followed by execute() on its result
Apis == {"findTargets", "executeCleanup", "dedust"}
\* the listener options: none, some but not onError, onError
Listeners == {"none", "some", "error"}

\* rule texts of the entry points: ignore a, delete a, delete **/b.x,
\* delete *, delete ../o
ApiRules ==
    {Rule("ignore", <<"a">>, NoCondition),
     Rule("delete", <<"a">>, NoCondition),
     Rule("delete", <<"**", "b.x">>, NoCondition),
     Rule("delete", <<"*">>, NoCondition),
     Rule("delete", <<"..", OutsideName>>, NoCondition)}

\* calls with skipValidation under every listener option and with the base
\* directory written absolute or relative, and calls that validate
ApiCalls ==
    {NewCall(api, rules, <<base>>, << >>, << >>, TRUE, listeners, << >>) :
        api \in Apis, rules \in SeqsUpTo(ApiRules, MaxRules),
        base \in {AbsBase, RelBase}, listeners \in Listeners}
    \cup
    {NewCall(api, rules, <<AbsBase>>, << >>, << >>, FALSE, "none", << >>) :
        api \in Apis, rules \in SeqsUpTo(ApiRules, MaxRules)}

InitApi == \E c \in ApiCalls, t \in Trees : InitWith(c, t)

NextApi ==
    \/ Validate
    \/ Scan
    \/ ExecuteStart
    \/ ExecuteTarget
    \/ ExecuteReturn
    \/ ResultExecuteListeners
    \/ ResultExecuteDirect

\* a call of an entry point of index.js, to its end
SpecApi == InitApi /\ [][NextApi]_vars

\* calls of dedust whose result is executed, possibly more than once
ResultCalls ==
    {NewCall("dedust", rules, <<AbsBase>>, << >>, << >>, TRUE, listeners, << >>) :
        rules \in SeqsUpTo(ApiRules, MaxRules), listeners \in Listeners}

InitResult == \E c \in ResultCalls, t \in Trees : InitWith(c, t)

NextResult ==
    \/ Validate
    \/ Scan
    \/ ExecuteStart
    \/ ExecuteTarget
    \/ ExecuteReturn
    \/ ResultExecuteListeners
    \/ ResultExecuteDirect
    \/ ResultExecuteAgain

\* dedust, then execute() on its result, any number of times
SpecResult == InitResult /\ [][NextResult]_vars

\* the target lists handed to Evaluator.execute: distinct existing paths,
\* in any order
TargetLists(t) ==
    {l \in SeqsUpTo(DOMAIN t, MaxTargets) :
        \A i, j \in 1..Len(l) : i # j => l[i] # l[j]}

ExecCalls(t) ==
    {NewCall("execute", << >>, <<AbsBase>>, << >>, << >>, TRUE, listeners, targets) :
        listeners \in {"none", "error"}, targets \in TargetLists(t)}

InitExec == \E t \in Trees : \E c \in ExecCalls(t) : InitWith(c, t)

NextExec == ExecuteStart \/ ExecuteTarget \/ ExecuteReturn

\* Evaluator.execute(targets) called on its own
SpecExec == InitExec /\ [][NextExec]_vars

\* rules handed to validateRules: every action with every target, delete
\* rules with and without a condition
ValidatorTargets ==
    {<<"*">>, <<"**">>, <<"*.*">>, <<"**", "*">>, <<"**", "*.*">>,
     <<"a">>, <<"a", "*">>, <<"**", "b.x">>}

ValidatorRules ==
    {Rule(action, target, NoCondition) :
        action \in {"delete", "ignore", "skip"}, target \in ValidatorTargets}
    \cup {Rule("delete", target, WhenExists(<<"a">>)) : target \in ValidatorTargets}

ValidatorCalls ==
    {NewCall("validateRules", rules, <<AbsBase>>, << >>, << >>, FALSE, "none", << >>) :
        rules \in SeqsUpTo(ValidatorRules, MaxRules)}

InitValidate == \E c \in ValidatorCalls : InitWith(c, FixedEntries)

NextValidate == ValidateRules

\* validateRules(rules) called on its own
SpecValidate == InitValidate /\ [][NextValidate]_vars

\* base directories that overlap: the base directory written absolute and
\* relative, and a directory in it
NestedBase == [abs |-> TRUE, segs |-> BaseDir \o <<"a">>]
MultiBases == {AbsBase, RelBase, NestedBase}

\* rule texts of a scan of several directories: delete a, delete *,
\* delete **/b.x
MultiRules ==
    {Rule("delete", <<"a">>, NoCondition),
     Rule("delete", <<"*">>, NoCondition),
     Rule("delete", <<"**", "b.x">>, NoCondition)}

MultiCalls ==
    {NewCall("findTargets", rules, baseDirs, << >>, << >>, TRUE, "none", << >>) :
        rules \in SeqsUpTo(MultiRules, MaxRules),
        baseDirs \in [1..1 -> MultiBases] \cup [1..2 -> MultiBases]}

InitMulti == \E c \in MultiCalls, t \in Trees : InitWith(c, t)

\* a scan of one or two base directories through findTargets
SpecMulti == InitMulti /\ [][Next]_vars

\* rule texts of a scan with failures: delete a, delete *, delete **/b.x,
\* delete * when exists a
FaultyRules ==
    {Rule("delete", <<"a">>, NoCondition),
     Rule("delete", <<"*">>, NoCondition),
     Rule("delete", <<"**", "b.x">>, NoCondition),
     Rule("delete", <<"*">>, WhenExists(<<"a">>))}

FaultyCalls ==
    {NewCall("findTargets", rules, <<AbsBase>>, << >>, << >>, TRUE, listeners, << >>) :
        rules \in SeqsUpTo(FaultyRules, MaxRules), listeners \in Listeners}

\* at most one listing or expansion fails, at a directory of the tree at or
\* below the base directory
FaultsOf(c, t) ==
    {{}} \cup {{<<k, d>>} : k \in 0..Len(c.rules),
                            d \in {p \in DOMAIN t : t[p] = "dir" /\ IsPrefix(BaseDir, p)}}

InitFaulty ==
    \E c \in FaultyCalls, t \in Trees : \E f \in FaultsOf(c, t) : InitWithFaults(c, t, f)

NextFaulty == Validate \/ ScanFaulty

\* a scan through findTargets during which a listing or an expansion fails
SpecFaulty == InitFaulty /\ [][NextFaulty]_vars

\* most pieces in a rule text
MaxPieces == 3

\* the pieces rule texts are made of
Pieces ==
    {<<"d", "e", "l", "e", "t", "e", " ", "a">>,
     <<"i", "g", "n", "o", "r", "e", " ", "a">>,
     <<"s", "k", "i", "p", " ", "a">>,
     <<"d", "e", "l", "e", "t", "e", " ", ".", ".", "/", "o">>,
     <<"d", "e", "l", "e", "t", "e", " ", "/", "t", "m", "p", "/", "x">>,
     <<"d", "e", "l", "e", "t", "e", " ", ".", "/", "a">>,
     <<"w", "h", "e", "n", " ", "e", "x", "i", "s", "t", "s", " ", "a">>,
     <<"a", "n", "d", " ", "n", "o", "t", " ", "p", "a", "r", "e", "n", "t", " ",
       "e", "x", "i", "s", "t", "s", " ", "a">>,
     <<"a">>,
     <<"s", "k", "i", "p">>,
     <<"d", "e", "l", "e", "t", "e">>,
     <<"w", "h", "e", "n", " ", "p", "a", "r", "e", "n", "t">>,
     <<"w", "h", "e", "n", " ", "e", "x", "i", "s", "t", "s">>,
     <<"\"", "d", "e", "l", "e", "t", "e", "\"", " ", "a">>,
     <<"d", "e", "l", "e", "t", "e", " ", "\"", "w", "h", "e", "n", "\"">>}

\* the pieces of a text, with a blank between them
RECURSIVE JoinPieces(_)
JoinPieces(ps) ==
    IF ps = << >> THEN << >>
    ELSE IF Len(ps) = 1 THEN ps[1]
    ELSE ps[1] \o <<" ">> \o JoinPieces(Tail(ps))

Texts == {JoinPieces(ps) : ps \in SeqsUpTo(Pieces, MaxPieces)}

ParseCalls ==
    {NewCall("parse", text, <<AbsBase>>, << >>, << >>, TRUE, "none", << >>) : text \in Texts}

InitParse == \E c \in ParseCalls : InitWith(c, FixedEntries)

NextParse == Tokenize \/ Parse

\* a rule text is tokenized and parsed
SpecParse == InitParse /\ [][NextParse]_vars

\* most characters in a text given to the tokenizer alone
MaxChars == 5

\* the characters of those texts: a name character, the glob characters *
\* and ?, the two quotes, the backslash and the newline
Alphabet == {"n", "*", "?", "\"", "'", "\\", "\n"}

TokenizeCalls ==
    {NewCall("tokenize", input, <<AbsBase>>, << >>, << >>, TRUE, "none", << >>) :
        input \in SeqsUpTo(Alphabet, MaxChars)}

InitTokenize == \E c \in TokenizeCalls : InitWith(c, FixedEntries)

NextTokenize == Tokenize

\* a text is tokenized
SpecTokenize == InitTokenize /\ [][NextTokenize]_vars

\* most predicates in a when clause
MaxChain == 3

\* a project and a crate in it, each with or without Cargo.toml, keep.txt
\* and target
ConditionTrees ==
    LET top == {BaseDir \o <<x>> : x \in {"Cargo.toml", "keep.txt", "target", "crate1"}}
        inner == {BaseDir \o <<"crate1", x>> : x \in {"Cargo.toml", "keep.txt", "target"}}
        shapes == {S \in SUBSET (top \cup inner) :
                      \A p \in S : Len(p) > Len(BaseDir) + 1 => Front(p) \in S}
    IN  {FixedEntries
         @@ [p \in S |-> IF Last(p) \in {"Cargo.toml", "keep.txt"} THEN "file" ELSE "dir"] :
            S \in shapes}

\* the predicates of the when clauses: exists Cargo.toml, not exists
\* keep.txt, not not exists Cargo.toml, parent exists Cargo.toml
ConditionPredicates ==
    {ExistsPredicate("here", <<"Cargo.toml">>),
     NotPredicate(ExistsPredicate("here", <<"keep.txt">>)),
     NotPredicate(NotPredicate(ExistsPredicate("here", <<"Cargo.toml">>))),
     ExistsPredicate("parent", <<"Cargo.toml">>)}

\* rule texts  delete target when p1 and ... and pn, with the condition the
\* parser builds for them
ConditionCalls ==
    {NewCall("findTargets",
             <<Rule("delete", <<"target">>,
                    <<IF Len(ps) = 1 THEN PredicateCondition(ps[1]) ELSE chain(ps)>>)>>,
             <<AbsBase>>, << >>, << >>, FALSE, "none", << >>) :
        ps \in SeqsUpTo(ConditionPredicates, MaxChain) \ {<< >>}}

InitCondition == \E c \in ConditionCalls, t \in ConditionTrees : InitWith(c, t)

\* a scan with a rule under a chain of predicates
SpecCondition == InitCondition /\ [][Next]_vars

\* a workspace of crates: the paths an entry can have below the base
\* directory
LocationUniverse ==
    {BaseDir \o <<x>> : x \in {"Cargo.toml", "target", "crate1", "crate2"}}
    \cup {BaseDir \o <<c, x>> : c \in {"crate1", "crate2"}, x \in {"Cargo.toml", "target"}}

LocationShapes ==
    {S \in SUBSET LocationUniverse :
        \A p \in S : Len(p) > Len(BaseDir) + 1 => Front(p) \in S}

\* Cargo.toml is a file, every other entry a directory
LocationTrees ==
    {FixedEntries @@ [p \in S |-> IF Last(p) = "Cargo.toml" THEN "file" ELSE "dir"] :
        S \in LocationShapes}

\* the location modifiers of the rule language
Locations == {"here", "parent", "parents", "child", "children", "sibling"}

\* rule texts: delete target when <location> exists Cargo.toml
LocationRules ==
    {Rule("delete", <<"target">>,
          <<PredicateCondition(ExistsPredicate(l, <<"Cargo.toml">>))>>) : l \in Locations}

\* the options: none, ignore crate2, skip crate2
LocationCalls ==
    {NewCall("findTargets", <<r>>, <<AbsBase>>, o[1], o[2], FALSE, "none", << >>) :
        r \in LocationRules,
        o \in {<<<< >>, << >>>>, <<<< <<"crate2">> >>, << >>>>, <<<< >>, << <<"crate2">> >>>>}}

InitLocation == \E c \in LocationCalls, t \in LocationTrees : InitWith(c, t)

\* a scan with a rule whose condition looks at another directory
SpecLocation == InitLocation /\ [][Next]_vars

(***************************************************************************)
(* Properties of the scan.                                                 *)
(***************************************************************************)
\* the ignore and skip lists of a call: the targets of its ignore / skip
\* rules together with the patterns of the option
IgnoreList(c) == RuleTargets(c.rules, "ignore") \o c.ignore
SkipList(c) == RuleTargets(c.rules, "skip") \o c.skip

\* the path relative to the base directory, and that of each ancestor
\* below the base directory
LeadingParts(rel) == {SubSeq(rel, 1, i) : i \in 1..Len(rel)}
RelativeToBase(c, p) == PathRelative(PathResolve(c.baseDirs[1]), p)

\* a pattern covers a path when it matches it; dir/** also covers dir
Covers(pattern, rel) ==
    \/ MinimatchMatch(pattern, rel)
    \/ HasRecursiveSuffix(pattern) /\ MinimatchMatch(DirPattern(pattern), rel)

\* the path or one of its ancestors below the base directory is covered
CoveredBy(patterns, rel) ==
    \E k \in 1..Len(patterns) : \E part \in LeadingParts(rel) : Covers(patterns[k], part)

\* C1: no target of a scan matches an ignore pattern (of an ignore rule or
\* of the ignore option) or has an ancestor below the base directory that
\* matches one, even when a delete rule names the path directly.
C1_NoIgnoredTarget ==
    \A i \in 1..Len(allTargets) :
        \A k \in 1..Len(IgnoreList(call)) :
            \A part \in LeadingParts(RelativeToBase(call, allTargets[i])) :
                ~MinimatchMatch(IgnoreList(call)[k], part)

\* a finished scan in which a delete rule names an existing path that an
\* ignore pattern covers
C1_Witness ==
    /\ pc = "returned"
    /\ IgnoreList(call) # << >>
    /\ \E k \in 1..Len(call.rules) :
          /\ call.rules[k].action = "delete"
          /\ isSimplePattern(call.rules[k].target)
          /\ LET p == PathJoin(BaseDir, call.rules[k].target)
             IN  /\ Exists(fs, p)
                 /\ CoveredBy(IgnoreList(call), RelativeToBase(call, p))

\* C2: no target of a scan lies strictly beneath a skip-covered directory,
\* whichever delete rule or glob would match it.
C2_NothingBeneathSkipped ==
    \A i \in 1..Len(allTargets) :
        LET rel == RelativeToBase(call, allTargets[i])
        IN  \A j \in 1..(Len(rel) - 1) : ~CoveredBy(SkipList(call), SubSeq(rel, 1, j))

\* a finished scan with a recursive glob evaluated at the base directory and
\* an entry it matches beneath a directory that is skip-covered and not
\* ignored
C2_Witness ==
    /\ pc = "returned"
    /\ \E k \in 1..Len(call.rules) :
          /\ call.rules[k] = Rule("delete", <<"**", "b.x">>, NoCondition)
          /\ \E p \in DOMAIN fs :
                /\ IsBeneath(p, BaseDir \o <<"a">>)
                /\ GlobMatch(call.rules[k].target, RelativeToBase(call, p))
                /\ CoveredBy(SkipList(call), <<"a">>)
                /\ ~CoveredBy(IgnoreList(call), <<"a">>)

(***************************************************************************)
(* Properties of the entry points.                                         *)
(***************************************************************************)
\* the base directory of the call, resolved
ResolvedBase == PathResolve(call.baseDirs[1])

\* the target set of the call: what the scan returned or the caller supplied
TargetSet ==
    LET l == IF call.api \in {"findTargets", "dedust"} THEN allTargets ELSE pending
    IN  {l[i] : i \in 1..Len(l)}

\* the paths removed since the call was made
Removed == DOMAIN fs0 \ DOMAIN fs

\* the targets the validator calls dangerous, written out
DangerousTargets == {<<"*">>, <<"**">>, <<"*.*">>, <<"**", "*">>, <<"**", "*.*">>}

\* a delete rule with a dangerous target and no condition
Unconditioned(r) ==
    r.action = "delete" /\ r.target \in DangerousTargets /\ r.condition = << >>

\* C3: every path of the target set of a scan, and every path removed when
\* the target set is executed, lies inside the base directory.
C3_InsideBase ==
    /\ \A t \in TargetSet : IsBeneath(t, ResolvedBase)
    /\ \A p \in Removed : IsBeneath(p, ResolvedBase)

\* C4: a call of findTargets, executeCleanup or dedust without
\* skipValidation whose rules hold a delete rule with a dangerous target and
\* no condition ends with a ValidationError, with no directory listed, no
\* notification emitted and the filesystem as it was.
C4_ValidationFirst ==
    (/\ call.api \in Apis
     /\ ~call.skipValidation
     /\ \E k \in 1..Len(call.rules) : Unconditioned(call.rules[k])
     /\ pc # "call")
    => (/\ pc = "threw"
        /\ thrown = "ValidationError"
        /\ listed = << >>
        /\ events = << >>
        /\ Removed = {}
        /\ fs = fs0)

\* a call that failed validation on a tree with entries below the base
\* directory
C4_Witness ==
    /\ pc = "threw"
    /\ thrown = "ValidationError"
    /\ ~call.skipValidation
    /\ \E p \in DOMAIN fs0 : IsBeneath(p, ResolvedBase)

\* C5: validateRules reports exactly the delete rules with a dangerous
\* target and no condition, one entry per rule, in rule order, each with its
\* rule; valid holds iff there is none.
C5_ExactlyTheUnconditioned ==
    validation # << >> =>
        LET expected == SelectSeq(call.rules, Unconditioned)
            v == validation[1]
        IN  /\ Len(v.errors) = Len(expected)
            /\ \A i \in 1..Len(expected) : v.errors[i].rule = expected[i]
            /\ v.valid = (expected = << >>)

\* validateRules returned for a dangerous delete rule with a condition next
\* to a dangerous delete rule without one
C5_Witness ==
    /\ call.api = "validateRules"
    /\ pc = "returned"
    /\ Len(validation[1].errors) = 1
    /\ \E i, j \in 1..Len(call.rules) :
          /\ call.rules[i].target = call.rules[j].target
          /\ Unconditioned(call.rules[i])
          /\ call.rules[j].action = "delete"
          /\ call.rules[j].condition # << >>

\* C6: execution removes only the targets and what lies beneath them: every
\* path that existed at the call and is neither a target nor beneath one
\* still exists.
C6_OnlyTargetsRemoved ==
    \A p \in Removed : \E t \in TargetSet : IsPrefix(t, p)

\* a finished execution that removed a target while an ignored directory
\* below the base directory, matched by a delete rule, stays
C6_Witness ==
    /\ pc = "returned"
    /\ Removed # {}
    /\ call.rules = <<Rule("ignore", <<"a">>, NoCondition), Rule("delete", <<"*">>, NoCondition)>>
    /\ IsDirectory(fs, ResolvedBase \o <<"a">>)
    /\ \E p \in DOMAIN fs : IsBeneath(p, ResolvedBase \o <<"a">>)

\* C7: a scan leaves the directory tree as it was: findTargets to its
\* return, and dedust until execute is called on its result.
C7_ScanIsDryRun ==
    (call.api = "findTargets" \/ pc \in {"call", "scan", "result"}) => fs = fs0

\* a scan that returned targets
C7_Witness ==
    /\ call.api \in {"findTargets", "dedust"}
    /\ pc \in {"returned", "result"}
    /\ allDeleted = << >>
    /\ allTargets # << >>
    /\ \A t \in TargetSet : Exists(fs, t)

\* no removal has failed
NoRemovalFailed ==
    /\ thrown = ""
    /\ \A i \in 1..Len(allErrors) : allErrors[i].error # "EACCES"
    /\ \A i \in 1..Len(errors) : errors[i].error # "EACCES"

\* a target that is a directory with another target beneath it
EnclosingTargets == {d \in TargetSet : IsDirectory(fs0, d) /\ \E t \in TargetSet : IsBeneath(t, d)}

\* C10: executing a target set that holds a directory and paths beneath it,
\* every removal succeeding, returns no errors, lists the directory in
\* deleted and leaves no target on disk.
C10_DirectoryAndBeneath ==
    (/\ call.api \in {"dedust", "executeCleanup"}
     /\ pc = "returned"
     /\ EnclosingTargets # {}
     /\ NoRemovalFailed)
    => (/\ allErrors = << >>
        /\ \A d \in EnclosingTargets : \E i \in 1..Len(allDeleted) : allDeleted[i] = d
        /\ \A t \in TargetSet : ~Exists(fs, t))

(***************************************************************************)
(* Properties of Evaluator.execute.                                        *)
(***************************************************************************)
\* C8: when the removal of a target fails, execute records it in errors,
\* does not throw, and goes on to every target after it, with or without an
\* error listener.
C8_BestEffort ==
    /\ thrown = ""
    /\ pc = "returned" => Len(attempted) = Len(pending)

C11_MissingTargetSkipped ==
    [][/\ (pc = "deleting" /\ queue # << >> /\ ~Exists(fs, Head(queue)))
          => (/\ deleted' = deleted
              /\ errors' = errors
              /\ events' = events
              /\ thrown' = thrown
              /\ pc' = "deleting")
       /\ (pc = "result" /\ pc' = "returned")
          => \A i \in 1..Len(allTargets) :
                ~Exists(fs, allTargets[i])
                => (/\ \A j \in 1..Len(allDeleted') : allDeleted'[j] # allTargets[i]
                    /\ \A j \in 1..Len(allErrors') : allErrors'[j].path # allTargets[i])
      ]_vars

(***************************************************************************)
(* Properties of the traversal and of rule evaluation.                     *)
(***************************************************************************)

\* the directories the scan visited
Visited == {listed[i] : i \in 1..Len(listed)}

\* the target of a rule, evaluated at directory d, names path p
ResolvesTo(target, d, p) ==
    IF isSimplePattern(target)
    THEN PathJoin(d, target) = p
    ELSE IsPrefix(d, p) /\ GlobMatch(target, PathRelative(d, p))

\* the rule has no condition, or its condition holds at directory d
ConditionHolds(rule, d) ==
    \/ rule.condition = << >>
    \/ evaluateCondition(evaluatorOf(call, 1), fs, rule.condition[1], d)

\* a delete rule selects path p from a visited directory
Selected(p) ==
    \E k \in 1..Len(call.rules) : \E d \in Visited :
        /\ call.rules[k].action = "delete"
        /\ ResolvesTo(call.rules[k].target, d, p)
        /\ ConditionHolds(call.rules[k], d)

\* C12: a directory that matches a skip pattern, is not ignored, has no
\* skip-covered proper ancestor and is selected by a delete rule from a
\* visited directory where the rule's condition holds, is in the target set.
C12_SkippedItselfMatchable ==
    pc = "returned" =>
        \A p \in DOMAIN fs :
            LET rel == RelativeToBase(call, p)
            IN  (/\ IsDirectory(fs, p)
                 /\ IsBeneath(p, ResolvedBase)
                 /\ \E k \in 1..Len(SkipList(call)) : Covers(SkipList(call)[k], rel)
                 /\ ~CoveredBy(IgnoreList(call), rel)
                 /\ \A j \in 1..(Len(rel) - 1) : ~CoveredBy(SkipList(call), SubSeq(rel, 1, j))
                 /\ Selected(p))
                => p \in TargetSet

\* a finished scan with a skip-covered directory that has entries, selected
\* by a delete rule: the directory is a target, nothing beneath it is
C12_Witness ==
    /\ pc = "returned"
    /\ LET p == ResolvedBase \o <<"a">>
       IN  /\ IsDirectory(fs, p)
           /\ \E k \in 1..Len(SkipList(call)) : Covers(SkipList(call)[k], <<"a">>)
           /\ Selected(p)
           /\ p \in TargetSet
           /\ \E q \in DOMAIN fs : IsBeneath(q, p)
           /\ \A q \in TargetSet : ~IsBeneath(q, p)

\* the directories for which a directory-visited notification was sent
Notified == {events[i].path : i \in {j \in 1..Len(events) : events[j].type = "scan:directory"}}

\* some directory from below the base down to p matches an ignore or a skip
\* pattern
Pruned(p) ==
    \/ CoveredBy(IgnoreList(call), RelativeToBase(call, p))
    \/ CoveredBy(SkipList(call), RelativeToBase(call, p))

\* C13: the directories a scan visits, and notifies as visited, are exactly
\* the base directory and the directories beneath it with no directory from
\* below the base down to them matching an ignore or a skip pattern.
C13_VisitedExactly ==
    pc = "returned" =>
        /\ Notified = Visited
        /\ Visited = {p \in DOMAIN fs :
                        /\ IsDirectory(fs, p)
                        /\ \/ p = ResolvedBase
                           \/ IsBeneath(p, ResolvedBase) /\ ~Pruned(p)}

\* a finished scan that visited a directory two levels below the base and
\* left out another directory because of a pattern
C13_Witness ==
    /\ pc = "returned"
    /\ \E p \in Visited : Len(p) = Len(ResolvedBase) + 2
    /\ \E p \in DOMAIN fs :
          /\ IsDirectory(fs, p)
          /\ IsBeneath(p, ResolvedBase)
          /\ Pruned(p)
          /\ p \notin Visited

\* the workspace with a manifest at the top and in crate1 only
CargoWorkspace ==
    FixedEntries
    @@ (BaseDir \o <<"Cargo.toml">> :> "file")
    @@ (BaseDir \o <<"crate1">> :> "dir")
    @@ (BaseDir \o <<"crate1", "Cargo.toml">> :> "file")
    @@ (BaseDir \o <<"crate1", "target">> :> "dir")
    @@ (BaseDir \o <<"crate2">> :> "dir")
    @@ (BaseDir \o <<"crate2", "target">> :> "dir")

\* the rule  delete target when parent exists Cargo.toml
ParentExistsRule ==
    Rule("delete", <<"target">>,
         <<PredicateCondition(ExistsPredicate("parent", <<"Cargo.toml">>))>>)

\* C14: in the workspace with Cargo.toml at the top and in crate1 only, the
\* rule  delete target when parent exists Cargo.toml  selects crate1/target
\* and does not select crate2/target.
C14_ParentExists ==
    (pc = "returned" /\ fs = CargoWorkspace /\ call.rules = <<ParentExistsRule>>
     /\ call.ignore = << >>)
        => /\ (BaseDir \o <<"crate1", "target">>) \in TargetSet
           /\ (BaseDir \o <<"crate2", "target">>) \notin TargetSet

\* the directories an exists predicate with location l checks at directory d
Candidates(d, l) == getLocationDirs(evaluatorOf(call, 1), fs, d, l)

\* C15: at every visited directory and for every location modifier, each
\* directory an exists predicate checks is the base directory or beneath it;
\* at the base directory parent, parents and sibling give no directory, and
\* parents gives, at any other visited directory, directories ending with
\* the base directory.
C15_LocationInsideBase ==
    pc = "returned" =>
        \A d \in Visited : \A l \in Locations :
            /\ \A i \in 1..Len(Candidates(d, l)) : IsPrefix(ResolvedBase, Candidates(d, l)[i])
            /\ (d = ResolvedBase /\ l \in {"parent", "parents", "sibling"})
                  => Candidates(d, l) = << >>
            /\ (d # ResolvedBase /\ l = "parents")
                  => Last(Candidates(d, l)) = ResolvedBase

\* a finished scan under a parents condition that visited a directory two
\* levels below the base, where the predicate checks the directory above and
\* the base directory and nothing else, and that found a target
C15_Witness ==
    /\ pc = "returned"
    /\ call.rules[1].condition[1].predicate[1].location = "parents"
    /\ \E d \in Visited :
          /\ Len(d) = Len(ResolvedBase) + 2
          /\ Candidates(d, "parents") = <<Front(d), ResolvedBase>>
    /\ Candidates(ResolvedBase, "parents") = << >>
    /\ TargetSet # {}

(***************************************************************************)
(* Properties of the notifications.                                        *)
(***************************************************************************)
\* the elements of a sequence
Elements(seq) == {seq[i] : i \in 1..Len(seq)}

\* what execute() returns and leaves behind for the same targets on the same
\* tree when no listener option is supplied, for some removals that fail
WithoutListeners ==
    {directExecute(fs0, allTargets, failing) : failing \in SUBSET Elements(allTargets)}

\* C16: listeners do not affect results: the scan returns the same targets,
\* and execute() on the result of dedust removes the same paths and returns
\* the same deleted and errors contents, with a listener option as without.
C16_ListenersDoNotMatter ==
    (pc = "returned" /\ call.api = "dedust" /\ hasListeners(call))
        => /\ allTargets = evaluate(evaluatorOf(call, 1), fs0).targets
           /\ \E r \in WithoutListeners :
                 /\ fs = r.fs
                 /\ Elements(allDeleted) = Elements(r.deleted)
                 /\ Elements(allErrors) = Elements(r.errors)

(***************************************************************************)
(* Properties of a scan with failures.                                     *)
(***************************************************************************)
\* the expansion of the target pattern of rule k fails at directory d; a
\* target without glob characters is not expanded
ExpansionFails(k, d) == <<k, d>> \in faults /\ ~isSimplePattern(call.rules[k].target)

\* C17: a listing or an expansion that fails never aborts the scan: it
\* returns without throwing, with or without an error listener, and the
\* targets are those found by the other rules at the other directories, the
\* failing one counting as no match.
C17_EvaluationNeverAborts ==
    /\ pc # "threw"
    /\ pc = "returned" =>
          TargetSet =
              UNION {Elements(findTargets(evaluatorOf(call, 1), Seen(fs, faults),
                                          call.rules[k], d)) :
                        <<k, d>> \in {x \in (1..Len(call.rules)) \X Visited :
                                         /\ ~ExpansionFails(x[1], x[2])
                                         /\ call.rules[x[1]].action = "delete"}}

(***************************************************************************)
(* Properties of a scan of several base directories.                       *)
(***************************************************************************)
\* the targets a scan of the k-th base directory alone returns
TargetsOfBase(k) == evaluate(evaluatorOf(call, k), fs).targets

RECURSIVE Segments(_)
Segments(pattern) ==
    IF \E i \in 1..Len(pattern) : pattern[i] = "/"
    THEN LET i == CHOOSE j \in 1..Len(pattern) :
                      pattern[j] = "/" /\ \A h \in 1..(j - 1) : pattern[h] # "/"
         IN  <<SubSeq(pattern, 1, i - 1)>> \o Segments(SubSeq(pattern, i + 1, Len(pattern)))
    ELSE <<pattern>>

\* C19: no rule the parser returns has a target that is an absolute path or
\* that has a .. or . segment.
C19_TargetsStayRelative ==
    pc = "returned" =>
        \A i \in 1..Len(parsedRules) :
            /\ parsedRules[i].target # << >> => Head(parsedRules[i].target) # "/"
            /\ \A s \in Elements(Segments(parsedRules[i].target)) :
                  s \notin {<<".", ".">>, <<".">>}

\* C20: a rule the parser returns with action ignore or skip has no
\* condition: a when after its target is not taken as part of it.
C20_OnlyDeleteHasCondition ==
    pc = "returned" =>
        \A i \in 1..Len(parsedRules) :
            parsedRules[i].action \in {Word.ignore, Word.skip}
                => parsedRules[i].condition = << >>

\* the text  ignore a delete a when exists a  is parsed: the ignore rule has
\* no condition, the delete rule after it has one
C20_Witness ==
    /\ pc = "returned"
    /\ Len(parsedRules) = 2
    /\ parsedRules[1].action = Word.ignore
    /\ parsedRules[1].condition = << >>
    /\ parsedRules[2].action = Word.delete
    /\ parsedRules[2].condition # << >>

\* the reading of a rule text the grammar gives, token by token: where is
\* the place in the grammar, heads the action and target of the rules read
\* so far.  A word of the grammar is a token that is not a quoted string.
IsWord(t, w) == t.type # "string" /\ t.value = w
IsActionWord(t) == \E w \in {Word.delete, Word.ignore, Word.skip} : IsWord(t, w)
IsLocationWord(t) ==
    \E w \in {Word.here, Word.parent, Word.parents, Word.child, Word.children,
              Word.sibling} : IsWord(t, w)
IsPatternToken(t) == t.type \in {"identifier", "string"}

RECURSIVE Reading(_, _, _, _)
Reading(ts, i, where, heads) ==
    LET t == ts[i]
        Malformed == [ok |-> FALSE, heads |-> << >>]
    IN  CASE where = "rule" ->
                 IF t.type = "eof" THEN [ok |-> TRUE, heads |-> heads]
                 ELSE IF IsActionWord(t)
                 THEN Reading(ts, i + 1, "target", Append(heads, <<t.value>>))
                 ELSE Malformed
          [] where = "target" ->
                 IF IsPatternToken(t)
                 THEN Reading(ts, i + 1, "afterTarget",
                              [heads EXCEPT ![Len(heads)] = Append(@, t.value)])
                 ELSE Malformed
          [] where = "afterTarget" ->
                 IF heads[Len(heads)][1] = Word.delete /\ IsWord(t, Word.when)
                 THEN Reading(ts, i + 1, "predicate", heads)
                 ELSE Reading(ts, i, "rule", heads)
          [] where = "predicate" ->
                 IF IsWord(t, Word.not) THEN Reading(ts, i + 1, "predicate", heads)
                 ELSE IF IsLocationWord(t) THEN Reading(ts, i + 1, "exists", heads)
                 ELSE Reading(ts, i, "exists", heads)
          [] where = "exists" ->
                 IF IsWord(t, Word.exists) THEN Reading(ts, i + 1, "pattern", heads)
                 ELSE Malformed
          [] where = "pattern" ->
                 IF IsPatternToken(t) THEN Reading(ts, i + 1, "afterPattern", heads)
                 ELSE Malformed
          [] OTHER ->
                 IF IsWord(t, Word.and) THEN Reading(ts, i + 1, "predicate", heads)
                 ELSE Reading(ts, i, "rule", heads)

\* the reading of the tokens of the call
Grammar == Reading(tokenized, 1, "rule", << >>)

\* C21: parse throws and returns no rule when some rule of the text has no
\* target after its action, does not start with delete, ignore or skip, has
\* no exists after the optional location or no pattern after exists;
\* otherwise it returns one rule for each rule of the text, in order.
C21_AllOrNothing ==
    pc \in {"returned", "threw"} =>
        IF Grammar.ok
        THEN /\ pc = "returned"
             /\ Len(parsedRules) = Len(Grammar.heads)
             /\ \A j \in 1..Len(parsedRules) :
                   <<parsedRules[j].action, parsedRules[j].target>> = Grammar.heads[j]
        ELSE pc = "threw" /\ parsedRules = << >>

\* the words of the rule language
LanguageWords == {Word[k] : k \in DOMAIN Word}

\* C23: an unquoted word is a keyword token iff it is one of delete, ignore,
\* skip, when, exists, and, not, here, parent, parents, child, children,
\* sibling, and an identifier token otherwise.
C23_KeywordTokens ==
    \A i \in 1..Len(tokenized) :
        tokenized[i].type \in {"keyword", "identifier"}
            => (tokenized[i].type = "keyword" <=> tokenized[i].value \in LanguageWords)

\* the positions of the unquoted tokens that read w
Unquoted(w) == {i \in 1..Len(tokenized) : IsWord(tokenized[i], w)}

\* C30: a quoted string is a pattern even when its text is a word of the
\* language: a text that begins with a quoted string is rejected, and parse
\* returns no more rules than the text has unquoted delete, ignore and skip
\* tokens to begin them and no more conditions than it has unquoted when
\* tokens.
C30_QuotedWordsArePatterns ==
    /\ (pc \in {"returned", "threw"} /\ tokenized[1].type = "string") => pc = "threw"
    /\ pc = "returned" =>
          /\ Len(parsedRules)
                <= Cardinality(Unquoted(Word.delete) \cup Unquoted(Word.ignore)
                               \cup Unquoted(Word.skip))
          /\ Cardinality({j \in 1..Len(parsedRules) : parsedRules[j].condition # << >>})
                <= Cardinality(Unquoted(Word.when))

(***************************************************************************)
(* Properties of the tokenizer.                                            *)
(***************************************************************************)
\* the text given to the tokenizer
Input == call.rules

\* C24: a text of name characters and glob characters is one identifier
\* token with the whole text as its value.
C24_GlobCharactersInIdentifier ==
    (pc = "parse" /\ Input # << >> /\ \A i \in 1..Len(Input) : Input[i] \in {"n", "*", "?"})
        => tokenized = <<Token("identifier", Input), Token("eof", << >>)>>

\* the number of backslashes in a row just before position j, after the
\* opening quote at position 1
RECURSIVE BackslashesBefore(_, _)
BackslashesBefore(text, j) ==
    IF j - 1 >= 2 /\ text[j - 1] = "\\" THEN 1 + BackslashesBefore(text, j - 1) ELSE 0

\* the positions of the unescaped occurrences of the opening quote
ClosingQuotes(text) ==
    {j \in 2..Len(text) : text[j] = text[1] /\ BackslashesBefore(text, j) % 2 = 0}

\* a text with every backslash escape decoded
RECURSIVE Decoded(_)
Decoded(text) ==
    IF text = << >> THEN << >>
    ELSE IF Head(text) = "\\" /\ Len(text) >= 2
    THEN <<CASE text[2] = "n" -> "\n" [] text[2] = "t" -> "\t" [] OTHER -> text[2]>>
         \o Decoded(SubSeq(text, 3, Len(text)))
    ELSE <<Head(text)>> \o Decoded(Tail(text))

RECURSIVE PredicatesOf(_)
PredicatesOf(c) ==
    IF c.type = "predicate" THEN c.predicate
    ELSE IF c.type = "and" THEN c.left \o PredicatesOf(c.right[1])
    ELSE <<c>>

\* predicate p holds at directory d: not q holds iff q does not, exists P
\* holds iff P exists in one of the directories of its location
RECURSIVE Holds(_, _)
Holds(p, d) ==
    IF p.type = "not" THEN ~Holds(p.negated[1], d)
    ELSE \E c \in Elements(Candidates(d, p.location)) : Exists(fs, PathJoin(c, p.pattern))

\* C22: a delete rule under  p1 and ... and pn  selects its target at a
\* directory iff the target exists there and every pi holds there.
C22_ConjunctionOfPredicates ==
    pc = "returned" =>
        \A d \in Visited :
            PathJoin(d, call.rules[1].target) \in TargetSet
                <=> /\ Exists(fs, PathJoin(d, call.rules[1].target))
                    /\ \A i \in 1..Len(PredicatesOf(call.rules[1].condition[1])) :
                          Holds(PredicatesOf(call.rules[1].condition[1])[i], d)

\* delete target when exists Cargo.toml and not exists keep.txt, scanned:
\* the base directory has Cargo.toml and no keep.txt and its target is
\* selected, crate1 has both and its target is not
C22_Witness ==
    /\ pc = "returned"
    /\ PredicatesOf(call.rules[1].condition[1])
          = <<ExistsPredicate("here", <<"Cargo.toml">>),
              NotPredicate(ExistsPredicate("here", <<"keep.txt">>))>>
    /\ Exists(fs, BaseDir \o <<"Cargo.toml">>)
    /\ ~Exists(fs, BaseDir \o <<"keep.txt">>)
    /\ (BaseDir \o <<"target">>) \in TargetSet
    /\ Exists(fs, BaseDir \o <<"crate1", "Cargo.toml">>)
    /\ Exists(fs, BaseDir \o <<"crate1", "keep.txt">>)
    /\ Exists(fs, BaseDir \o <<"crate1", "target">>)
    /\ (BaseDir \o <<"crate1", "target">>) \notin TargetSet

\* the steps the scan took for the rule at directory d, in order
StepsAt(d) ==
    LET At(c) == c.rule = 1 /\ c.directory = d
    IN  SelectSeq(checked, At)

\* the exists predicate under the negations of p
RECURSIVE Innermost(_)
Innermost(p) == IF p.type = "not" THEN Innermost(p.negated[1]) ELSE p

\* the number of predicates of p1, ..., pn that are evaluated at d when the
\* evaluation stops at the first one that does not hold
EvaluatedCount(ps, d) ==
    LET failing == {i \in 1..Len(ps) : ~Holds(ps[i], d)}
    IN  IF failing = {} THEN Len(ps) ELSE CHOOSE i \in failing : \A j \in failing : i <= j

\* C26: at every directory the predicates of the chain are evaluated in the
\* order of the text up to the first one that does not hold and no further;
\* every listing and existence check belongs to a predicate that was
\* evaluated; the target is looked up, last, only when every predicate holds.
C26_ShortCircuit ==
    pc = "returned" =>
        \A d \in Visited :
            LET ps == PredicatesOf(call.rules[1].condition[1])
                n == EvaluatedCount(ps, d)
                log == StepsAt(d)
                IsPredicate(c) == c.op = "predicate"
                evaluated == SelectSeq(log, IsPredicate)
                Owner(i) == Cardinality({j \in 1..i : log[j].op = "predicate"})
            IN  /\ [j \in 1..Len(evaluated) |-> evaluated[j].predicate[1]] = SubSeq(ps, 1, n)
                /\ \A i \in 1..Len(log) :
                      /\ log[i].op = "getLocationDirs"
                            => log[i].predicate[1] = Innermost(ps[Owner(i)])
                      /\ log[i].op = "exists"
                            => /\ log[i].pattern = Innermost(ps[Owner(i)]).pattern
                               /\ log[i].dir \in Elements(Candidates(
                                      d, Innermost(ps[Owner(i)]).location))
                      /\ log[i].op = "target"
                            => i = Len(log) /\ \A j \in 1..Len(ps) : Holds(ps[j], d)
                /\ (\A j \in 1..Len(ps) : Holds(ps[j], d))
                      => log # << >> /\ log[Len(log)].op = "target"

\* delete target when exists Cargo.toml and not exists keep.txt and parent
\* exists Cargo.toml, scanned: the base directory has Cargo.toml and
\* keep.txt, so the second predicate fails there; the third is not
\* evaluated and the target is not looked up
C26_Witness ==
    /\ pc = "returned"
    /\ PredicatesOf(call.rules[1].condition[1])
          = <<ExistsPredicate("here", <<"Cargo.toml">>),
              NotPredicate(ExistsPredicate("here", <<"keep.txt">>)),
              ExistsPredicate("parent", <<"Cargo.toml">>)>>
    /\ Exists(fs, BaseDir \o <<"Cargo.toml">>)
    /\ Exists(fs, BaseDir \o <<"keep.txt">>)
    /\ Exists(fs, BaseDir \o <<"target">>)
    /\ [i \in 1..Len(StepsAt(BaseDir)) |-> StepsAt(BaseDir)[i].op]
          = <<"predicate", "getLocationDirs", "exists",
              "predicate", "getLocationDirs", "exists">>

(***************************************************************************)
(* Properties of the located predicates.                                   *)
(***************************************************************************)
\* the directory itself matches an ignore pattern, a skip pattern
IsIgnored(p) ==
    \E k \in 1..Len(IgnoreList(call)) : Covers(IgnoreList(call)[k], RelativeToBase(call, p))
IsSkipCovered(p) ==
    \E k \in 1..Len(SkipList(call)) : Covers(SkipList(call)[k], RelativeToBase(call, p))

\* the directories a located predicate looks into at directory d
CandidateSet(d, l) ==
    LET Directories == {p \in DOMAIN fs : IsDirectory(fs, p)}
    IN  CASE l = "child" -> {p \in Directories : Front(p) = d /\ ~IsIgnored(p)}
          [] l = "children" ->
                {p \in Directories :
                    /\ IsBeneath(p, d)
                    /\ \A q \in Directories :
                          (IsBeneath(q, d) /\ (q = p \/ IsBeneath(p, q)))
                              => ~IsIgnored(q) /\ ~IsSkipCovered(q)}
          [] l = "sibling" ->
                IF d = ResolvedBase THEN {}
                ELSE {p \in Directories : Front(p) = Front(d) /\ p # d}

FoundPaths ==
    LET IsFound(e) == e.type = "file:found"
        found == SelectSeq(events, IsFound)
    IN  [i \in 1..Len(found) |-> found[i].path]

\* C28: in a finished scan every returned target has exactly one file:found
\* notification and no other path has one, and the number of these
\* notifications is the count scan:complete reports.
C28_OneNotificationPerTarget ==
    pc = "returned" =>
        /\ Elements(FoundPaths) = TargetSet
        /\ \A t \in TargetSet : Cardinality({i \in 1..Len(FoundPaths) : FoundPaths[i] = t}) = 1
        /\ Len(FoundPaths) = Len(allTargets)
        /\ \A i \in 1..Len(events) :
              events[i].type = "scan:complete" => events[i].n = Len(FoundPaths)

====
